---------------------------- MODULE Spec2Model ----------------------------
(***************************************************************************)
(* A model of the web-raytracer core: the vector kernel (js/math.js), the  *)
(* geometry, shading and recursive tracer (js/raytracer.js) and the camera *)
(* (js/camera.js).                                                         *)
(*                                                                         *)
(* Numbers.  A JavaScript number is modelled as a fixed-point integer: the *)
(* integer n stands for the real n / One, with One = 10^6.  Products and   *)
(* quotients are truncated toward zero at that resolution, Math.sqrt is    *)
(* the floor square root at that resolution.  Infinity and NaN are two     *)
(* reserved integers; Div yields them where the JavaScript division does.  *)
(*                                                                         *)
(* Records.  The fields of every record constructor are written in the     *)
(* order in which their names first occur in this module, which is the     *)
(* order TLC keeps them in.                                                *)
(***************************************************************************)
EXTENDS Integers, Sequences, FiniteSets, TLC

---------------------------------------------------------------------------
(* Fixed-point arithmetic                                                  *)

K == 1000 * 1
One == K * K

\* the value of `Infinity` (raytracer.js:285, 328)
Infinity == 2147483647
NegInfinity == -Infinity
\* not-a-number, the result of 0/0
NaN == NegInfinity - 1

Abs(p) == IF p < 0 THEN -p ELSE p
Sign(p, q) == IF (p < 0) # (q < 0) THEN -1 ELSE 1

\* high and low part of the exact product x*y = MulHi * One + MulLo (x, y >= 0)
MulHi(x, y) ==
  LET x1 == x \div K
      x0 == x % K
      y1 == y \div K
      y0 == y % K
      A == x1 * y0
      B == x0 * y1
  IN  x1 * y1 + A \div K + B \div K + (((A % K) + (B % K)) * K + x0 * y0) \div One

MulLo(x, y) ==
  LET x1 == x \div K
      x0 == x % K
      y1 == y \div K
      y0 == y % K
      A == x1 * y0
      B == x0 * y1
  IN  (((A % K) + (B % K)) * K + x0 * y0) % One

\* p * q
Mul(p, q) == Sign(p, q) * MulHi(Abs(p), Abs(q))

RECURSIVE DivDigits(_, _, _, _)
DivDigits(rem, y, n, acc) ==
  IF n = 0 THEN acc
  ELSE DivDigits((rem * 10) % y, y, n - 1, acc * 10 + (rem * 10) \div y)

\* p / q, with JavaScript's results for a zero divisor
Div(p, q) ==
  IF q = 0
  THEN (IF p = 0 THEN NaN ELSE IF p > 0 THEN Infinity ELSE NegInfinity)
  ELSE Sign(p, q) * DivDigits(Abs(p) % Abs(q), Abs(q), 6, Abs(p) \div Abs(q))

RECURSIVE SqrtBits(_, _, _)
SqrtBits(x, y, bit) ==
  IF bit = 0 THEN y
  ELSE IF y + bit <= 46340 * K
          /\ (MulHi(y + bit, y + bit) < x
              \/ (MulHi(y + bit, y + bit) = x /\ MulLo(y + bit, y + bit) = 0))
       THEN SqrtBits(x, y + bit, bit \div 2)
       ELSE SqrtBits(x, y, bit \div 2)

\* Math.sqrt(x) for x >= 0
Sqrt(x) == SqrtBits(x, 0, 33554432)

\* Math.min, Math.max
Min(p, q) == IF p < q THEN p ELSE q
Max(p, q) == IF p > q THEN p ELSE q

\* p < q as JavaScript evaluates it: false when either side is NaN
Lt(p, q) == p # NaN /\ q # NaN /\ p < q

---------------------------------------------------------------------------
(* Vector kernel (js/math.js)                                              *)

Vector3(x, y, z) == [x |-> x, y |-> y, z |-> z]

dot(v1, v2) == Mul(v1.x, v2.x) + Mul(v1.y, v2.y) + Mul(v1.z, v2.z)

cross(v1, v2) ==
  Vector3(Mul(v1.y, v2.z) - Mul(v1.z, v2.y),
          Mul(v1.z, v2.x) - Mul(v1.x, v2.z),
          Mul(v1.x, v2.y) - Mul(v1.y, v2.x))

length(v) == Sqrt(dot(v, v))

\* the division by the length without the test for a length of 0
normalizeUnguarded(v) ==
  Vector3(Div(v.x, length(v)), Div(v.y, length(v)), Div(v.z, length(v)))

normalize(v) ==
  LET len == length(v)
  IN  IF len = 0 THEN Vector3(0, 0, 0)
      ELSE Vector3(Div(v.x, len), Div(v.y, len), Div(v.z, len))

add(v1, v2) == Vector3(v1.x + v2.x, v1.y + v2.y, v1.z + v2.z)

subtract(v1, v2) == Vector3(v1.x - v2.x, v1.y - v2.y, v1.z - v2.z)

scale(v, s) == Vector3(Mul(v.x, s), Mul(v.y, s), Mul(v.z, s))

\* a vector with whole-number components
V(x, y, z) == Vector3(x * One, y * One, z * One)

---------------------------------------------------------------------------
(* Ray, Material, Intersection, Sphere, Plane, Light, Scene                *)
(* (js/raytracer.js)                                                       *)

\* the self-intersection guard 0.001 (raytracer.js:158, 161, 216, 540, 565)
EPSILON == K * 1
\* the self-intersection guard used as the parallel-ray threshold too
GuardAsParallelEpsilon == EPSILON

\* the parallel-ray threshold 0.0001 of Plane.intersect (raytracer.js:203)
PARALLEL_EPSILON == K \div 10

null == [type |-> "null"]

Ray(origin, direction) == [origin |-> origin, direction |-> direction]

\* a vector every component of which is NaN
NaNVector == Vector3(NaN, NaN, NaN)

IsFinite(t) == t \notin {NaN, Infinity, NegInfinity}

\* Ray.at(t); a non-finite t gives no point of space
at(ray, t) ==
  IF IsFinite(t) THEN add(ray.origin, scale(ray.direction, t)) ELSE NaNVector

\* options.f !== undefined ? options.f : default
Option(options, f, default) == IF f \in DOMAIN options THEN options[f] ELSE default

RGB(r, g, b) == [r |-> r, g |-> g, b |-> b]

Material(color, options) ==
  [color |-> color,
   diffuse |-> Option(options, "diffuse", 7 * (One \div 10)),
   specular |-> Option(options, "specular", 3 * (One \div 10)),
   shininess |-> Option(options, "shininess", 32),
   ambient |-> Option(options, "ambient", One \div 10),
   reflection |-> Option(options, "reflection", 0),
   transparency |-> Option(options, "transparency", 0),
   refractiveIndex |-> Option(options, "refractiveIndex", 15 * (One \div 10))]

NoOptions == [none |-> TRUE]

Intersection(point, distance, normal, material) ==
  [point |-> point, distance |-> distance, normal |-> normal, material |-> material]

Sphere(center, radius, material) ==
  [type |-> "Sphere",
   material |-> material,
   center |-> center,
   radius |-> radius]

Plane(point, normal, material) ==
  [type |-> "Plane", point |-> point, normal |-> normalize(normal), material |-> material]

\* the root of the quadratic that Sphere.intersect keeps, or null
SphereRoot(a, b, sqrtDiscriminant) ==
  LET t1 == Div((-b) - sqrtDiscriminant, 2 * a)
      t2 == Div((-b) + sqrtDiscriminant, 2 * a)
  IN  IF Lt(t1, EPSILON)
      THEN (IF Lt(t2, EPSILON) THEN null ELSE [t |-> t2])
      ELSE [t |-> t1]

SphereIntersect(sphere, ray) ==
  LET oc == subtract(ray.origin, sphere.center)
      a == dot(ray.direction, ray.direction)
      b == 2 * dot(oc, ray.direction)
      c == dot(oc, oc) - Mul(sphere.radius, sphere.radius)
      discriminant == Mul(b, b) - Mul(4 * a, c)
      root == SphereRoot(a, b, Sqrt(discriminant))
      point == at(ray, root.t)
      normal == IF IsFinite(root.t)
                THEN normalize(subtract(point, sphere.center))
                ELSE NaNVector
  IN  IF discriminant < 0 THEN null
      ELSE IF root = null THEN null
      ELSE Intersection(point, root.t, normal, sphere.material)

\* a plane hit from either side
PlaneIntersectTwoSided(plane, ray) ==
  LET denom == dot(ray.direction, plane.normal)
      p0l0 == subtract(plane.point, ray.origin)
      t == Div(dot(p0l0, plane.normal), denom)
  IN  IF Abs(denom) < PARALLEL_EPSILON THEN null
      ELSE IF Lt(t, EPSILON) THEN null
      ELSE Intersection(at(ray, t), t, plane.normal, plane.material)

PlaneIntersect(plane, ray) ==
  LET denom == dot(ray.direction, plane.normal)
      p0l0 == subtract(plane.point, ray.origin)
      t == Div(dot(p0l0, plane.normal), denom)
  IN  IF Abs(denom) < PARALLEL_EPSILON THEN null
      ELSE IF denom > 0 THEN null
      ELSE IF Lt(t, EPSILON) THEN null
      ELSE Intersection(at(ray, t), t, plane.normal, plane.material)

\* object.intersect(ray)
intersect(object, ray) ==
  IF object.type = "Sphere" THEN SphereIntersect(object, ray)
  ELSE PlaneIntersect(object, ray)

Light(type, options) ==
  [type |-> type,
   direction |-> Option(options, "direction", null),
   color |-> Option(options, "color", RGB(One, One, One)),
   position |-> Option(options, "position", null),
   intensity |-> Option(options, "intensity", One)]

Scene(objects, lights) == [objects |-> objects, lights |-> lights]

\* the test of the scan: intersection && intersection.distance < nearestDistance
IsNearer(intersection, nearestDistance) ==
  intersection # null /\ Lt(intersection.distance, nearestDistance)

\* the loop of computeRayIntersection from object i on
RECURSIVE NearestFrom(_, _, _, _, _)
NearestFrom(ray, objects, i, nearestIntersection, nearestDistance) ==
  IF i > Len(objects) THEN nearestIntersection
  ELSE LET intersection == intersect(objects[i], ray)
       IN  IF IsNearer(intersection, nearestDistance)
           THEN NearestFrom(ray, objects, i + 1, intersection, intersection.distance)
           ELSE NearestFrom(ray, objects, i + 1, nearestIntersection, nearestDistance)

computeRayIntersection(ray, sc) == NearestFrom(ray, sc.objects, 1, null, Infinity)

---------------------------------------------------------------------------
(* Shading: calculateLighting (js/raytracer.js)                            *)

\* Math.pow(x, n) for a whole exponent n >= 0, by repeated multiplication
RECURSIVE Pow(_, _)
Pow(x, n) ==
  IF n = 0 THEN One
  ELSE IF n % 2 = 1 THEN Mul(x, Pow(x, n - 1))
  ELSE LET h == Pow(x, n \div 2) IN Mul(h, h)

\* Math.min(1, Math.max(0, c))
Clamp01(c) == Min(One, Max(0, c))

\* the colour left as it is
Unclamped(color) == color

ClampColor(color) == RGB(Clamp01(color.r), Clamp01(color.g), Clamp01(color.b))

\* direction towards the light and distance to it, as seen from point
LightDir(light, point) ==
  IF light.type = "directional" THEN scale(light.direction, -One)
  ELSE normalize(subtract(light.position, point))

LightDistance(light, point) ==
  IF light.type = "directional" THEN Infinity
  ELSE length(subtract(light.position, point))

\* no shadow test at all
NeverInShadow(light, point, sc, enableShadows) == FALSE

\* the shadow test with the setting read the wrong way round
InShadowInverted(light, point, sc, enableShadows) ==
  IF enableShadows THEN FALSE
  ELSE LET shadowIntersection == computeRayIntersection(Ray(point, LightDir(light, point)), sc)
       IN  shadowIntersection # null
           /\ Lt(shadowIntersection.distance, LightDistance(light, point))

\* the shadow test of one light
InShadow(light, point, sc, enableShadows) ==
  IF enableShadows
  THEN LET shadowRay == Ray(point, LightDir(light, point))
           shadowIntersection == computeRayIntersection(shadowRay, sc)
       IN  shadowIntersection # null
           /\ Lt(shadowIntersection.distance, LightDistance(light, point))
  ELSE FALSE

\* light intensity at the point (inverse square falloff for point lights)
Attenuation(light, point) ==
  IF light.type = "point"
  THEN LET lightDistance == LightDistance(light, point)
       IN  Div(light.intensity,
               One + Mul(Mul(One \div 100, lightDistance), lightDistance))
  ELSE light.intensity

\* the body of the loop with the specular term computed whatever the sign of
\* dot(normal, lightDir)
AddLightUngated(result, light, intersection, ray, sc, enableShadows) ==
  LET point == intersection.point
      normal == intersection.normal
      material == intersection.material
      viewDir == scale(ray.direction, -One)
      lightDir == LightDir(light, point)
      lambertian == Max(dot(normal, lightDir), 0)
      reflectDir == subtract(scale(normal, 2 * dot(normal, lightDir)), lightDir)
      specular == Pow(Max(dot(reflectDir, viewDir), 0), material.shininess)
      intensity == Attenuation(light, point)
      diffuse(c, lc) == Mul(Mul(Mul(Mul(c, material.diffuse), lambertian), lc), intensity)
      specularIntensity == Mul(Mul(material.specular, specular), intensity)
  IN  IF InShadow(light, point, sc, enableShadows) THEN result
      ELSE RGB(result.r + diffuse(material.color.r, light.color.r)
                        + Mul(light.color.r, specularIntensity),
               result.g + diffuse(material.color.g, light.color.g)
                        + Mul(light.color.g, specularIntensity),
               result.b + diffuse(material.color.b, light.color.b)
                        + Mul(light.color.b, specularIntensity))

\* the body of the loop over the lights: result after this light
AddLight(result, light, intersection, ray, sc, enableShadows) ==
  LET point == intersection.point
      normal == intersection.normal
      material == intersection.material
      viewDir == scale(ray.direction, -One)
      lightDir == LightDir(light, point)
      lambertian == Max(dot(normal, lightDir), 0)
      reflectDir == subtract(scale(normal, 2 * dot(normal, lightDir)), lightDir)
      specular == IF lambertian > 0
                  THEN Pow(Max(dot(reflectDir, viewDir), 0), material.shininess)
                  ELSE 0
      intensity == Attenuation(light, point)
      diffuse(c, lc) == Mul(Mul(Mul(Mul(c, material.diffuse), lambertian), lc), intensity)
      specularIntensity == Mul(Mul(material.specular, specular), intensity)
  IN  IF InShadow(light, point, sc, enableShadows) THEN result
      ELSE RGB(result.r + diffuse(material.color.r, light.color.r)
                        + Mul(light.color.r, specularIntensity),
               result.g + diffuse(material.color.g, light.color.g)
                        + Mul(light.color.g, specularIntensity),
               result.b + diffuse(material.color.b, light.color.b)
                        + Mul(light.color.b, specularIntensity))

RECURSIVE LightsFrom(_, _, _, _, _, _)
LightsFrom(result, i, intersection, ray, sc, enableShadows) ==
  IF i > Len(sc.lights) THEN result
  ELSE LightsFrom(AddLight(result, sc.lights[i], intersection, ray, sc, enableShadows),
                  i + 1, intersection, ray, sc, enableShadows)

\* the ambient term the result starts from
Ambient(material) ==
  RGB(Mul(material.color.r, material.ambient),
      Mul(material.color.g, material.ambient),
      Mul(material.color.b, material.ambient))

\* calculateLighting, the global raytracingSettings.enableShadows made explicit
calculateLighting(intersection, ray, sc, enableShadows) ==
  ClampColor(LightsFrom(Ambient(intersection.material), 1,
                        intersection, ray, sc, enableShadows))

---------------------------------------------------------------------------
(* Reflection, refraction, Fresnel (js/raytracer.js)                       *)

calculateReflection(incident, normal) ==
  subtract(incident, scale(normal, 2 * dot(incident, normal)))

\* Snell's law with eta = 1/refrIndex whichever way the ray crosses
calculateRefractionEntering(incident, normal, refrIndex) ==
  LET cosi == Abs(dot(incident, normal))
      n == IF dot(incident, normal) < 0 THEN normal ELSE scale(normal, -One)
      eta == Div(One, refrIndex)
      discriminant == One - Mul(Mul(eta, eta), One - Mul(cosi, cosi))
  IN  IF discriminant <= 0 THEN null
      ELSE normalize(add(scale(incident, eta),
                         scale(n, Mul(eta, cosi) - Sqrt(discriminant))))

calculateRefraction(incident, normal, refrIndex) ==
  LET cosi0 == dot(incident, normal)
      inside == ~(cosi0 < 0)
      cosi == IF inside THEN cosi0 ELSE -cosi0
      etai == IF inside THEN refrIndex ELSE One
      etat == IF inside THEN One ELSE refrIndex
      n == IF inside THEN scale(normal, -One) ELSE normal
      eta == Div(etai, etat)
      discriminant == One - Mul(Mul(eta, eta), One - Mul(cosi, cosi))
      refractedRay == add(scale(incident, eta),
                          scale(n, Mul(eta, cosi) - Sqrt(discriminant)))
  IN  IF discriminant <= 0 THEN null ELSE normalize(refractedRay)

calculateFresnelReflection(incident, normal, refrIndex) ==
  LET cosi0 == dot(incident, normal)
      etai == IF cosi0 > 0 THEN refrIndex ELSE One
      etat == IF cosi0 > 0 THEN One ELSE refrIndex
      sint == Mul(Div(etai, etat), Sqrt(Max(0, One - Mul(cosi0, cosi0))))
      cost == Sqrt(Max(0, One - Mul(sint, sint)))
      cosi == Abs(cosi0)
      Rs == Div(Mul(etat, cosi) - Mul(etai, cost), Mul(etat, cosi) + Mul(etai, cost))
      Rp == Div(Mul(etai, cosi) - Mul(etat, cost), Mul(etai, cosi) + Mul(etat, cost))
  IN  IF sint >= One THEN One
      ELSE (Mul(Rs, Rs) + Mul(Rp, Rp)) \div 2

---------------------------------------------------------------------------
(* Scenes and rays: the fixtures of raytracer.test.js                      *)

White == RGB(One, One, One)
Red == RGB(One, 0, 0)
Green == RGB(0, One, 0)
Blue == RGB(0, 0, One)
Grey == RGB(8 * (One \div 10), 8 * (One \div 10), 8 * (One \div 10))

\* 'Lighting': one sphere and one point light
LitSphere == Sphere(V(0, 0, 5), One,
                    Material(Red, [diffuse |-> 7 * (One \div 10), specular |-> 3 * (One \div 10)]))
PointLight333 == Light("point", [color |-> White, position |-> V(3, 3, 3), intensity |-> One])
LightingScene == Scene(<<LitSphere>>, <<PointLight333>>)

\* 'should create shadows when objects block light'
BlockingSphere == Sphere(V(2, 2, 3), One \div 2, Material(Green, NoOptions))
ShadowScene == Scene(<<LitSphere, BlockingSphere>>, <<PointLight333>>)

\* 'should find the nearest intersection in a scene', with a sun and a lamp
\* that lies on the near sphere
TwoSpheresScene ==
  Scene(<<Sphere(V(0, 0, 10), 2 * One, Material(Blue, NoOptions)),
          Sphere(V(0, 0, 5), One, Material(Red, NoOptions))>>,
        <<Light("directional", [direction |-> V(0, 0, 1), color |-> White,
                                intensity |-> 2 * One]),
          Light("point", [position |-> V(0, 0, 4)])>>)

\* the shadow scene with a second light that nothing blocks
HalfShadowScene ==
  Scene(<<LitSphere, BlockingSphere>>,
        <<PointLight333,
          Light("directional", [direction |-> V(0, 0, 1), intensity |-> One \div 2])>>)

\* 'should respect the maximum reflection depth': two facing mirrors
MirrorMaterial == Material(Grey, [reflection |-> One \div 2])
MirrorsScene ==
  Scene(<<Plane(V(0, -1, 0), V(0, 1, 0), MirrorMaterial),
          Plane(V(0, 1, 0), V(0, -1, 0), MirrorMaterial),
          Sphere(V(0, 0, 5), One, Material(Red, NoOptions))>>,
        <<>>)

\* 'should trace reflected rays for reflective materials'
FloorScene ==
  Scene(<<Plane(V(0, -1, 0), V(0, 1, 0), Material(Grey, [reflection |-> One])),
          Plane(V(0, 0, 10), V(0, 0, -1), Material(Red, NoOptions))>>,
        <<Light("point", [color |-> White,
                          position |-> V(0, 10, 0),
                          intensity |-> 2 * One])>>)

\* 'should trace refracted rays for transparent materials', the glass also
\* reflective
GlassMaterial ==
  Material(RGB(8 * (One \div 10), 8 * (One \div 10), One),
           [reflection |-> One \div 5,
            transparency |-> 9 * (One \div 10),
            refractiveIndex |-> 15 * (One \div 10)])
GlassScene ==
  Scene(<<Sphere(V(0, 0, 5), One, GlassMaterial),
          Sphere(V(0, 0, 8), One, Material(Red, NoOptions))>>,
        <<Light("point", [color |-> White,
                          position |-> V(0, 5, 0),
                          intensity |-> 2 * One])>>)

\* two surfaces at the same distance from the origin along +z
TieScene ==
  Scene(<<Plane(V(0, 0, 4), V(0, 0, -1), Material(Green, NoOptions)),
          Sphere(V(0, 0, 5), One, Material(Red, NoOptions)),
          Plane(V(0, 0, 4), V(0, 0, -2), Material(Blue, NoOptions))>>,
        <<Light("directional", [direction |-> V(0, 0, 1)])>>)

EmptyScene == Scene(<<>>, <<>>)

Scenes == {EmptyScene, LightingScene, ShadowScene, HalfShadowScene, TwoSpheresScene,
           MirrorsScene, FloorScene, GlassScene, TieScene}

\* the rays of the tests, and two that calculateLighting casts as shadow rays
TestRays ==
  {Ray(V(0, 0, 0), V(0, 0, 1)),
   Ray(V(0, -2, 0), V(0, 1, 0)),
   Ray(V(0, 0, 0), normalize(V(0, -1, 1))),
   Ray(V(0, 5, 0), V(0, -1, 0))}

\* rays for single calls of the intersection functions: the tests' rays, a
\* shadow ray towards a light at its own origin (normalize gives direction
\* zero), a ray that starts on a sphere and points inward, a ray whose
\* direction has length 2, and rays that start inside a sphere or behind the
\* faces of the scenes
CallRays ==
  TestRays \union
  {Ray(V(0, 0, 4), normalize(V(0, 0, 0))),
   Ray(V(0, 0, 4), V(0, 0, 1)),
   Ray(V(0, 0, 0), V(0, 0, 2)),
   Ray(V(0, 0, 5), V(0, 0, 1)),
   Ray(V(0, 0, 8), V(0, 0, -1)),
   Ray(V(0, 0, 0), V(1, 0, 0))}

\* background colours: the tests' and one outside [0,1]
Backgrounds ==
  {RGB(One \div 10, One \div 10, One \div 10),
   RGB(2 * One, -One, One \div 2)}

---------------------------------------------------------------------------
(* State                                                                   *)

VARIABLES
  scene,               \* the Scene being rendered
  raytracingSettings,  \* the global settings object (raytracer.js:300)
  debugCount,          \* window._raytraceDebugCount
  stack,               \* the activations of traceRay, outermost first
  call,                \* the last call made from outside, with its arguments
  ret,                 \* what that call returned (none while it runs)
  camera,              \* the Camera
  cameraOps,           \* how many camera operations have been applied
  renderer,            \* the call of renderPreview or renderRaytrace in progress
  sceneManager,        \* the SceneManager: its id map and nextId
  page                 \* the page (main.js): gpuContext and its handlers

vars == <<scene, raytracingSettings, debugCount, stack, call, ret, camera, cameraOps,
         renderer, sceneManager, page>>

none == [type |-> "none"]
undefined == [type |-> "undefined"]

\* the recursion limit of traceRay
MAX_DEPTH == 5

\* how many top-level traceRay calls a behaviour makes
MaxRays == 2

DefaultSettings ==
  [enableShadows |-> TRUE, maxReflectionDepth |-> 3, samplesPerPixel |-> 1,
   enableRefraction |-> TRUE]

\* the values the 'maxReflectionDepth' slider is given
ReflectionDepths == {1, 10}

---------------------------------------------------------------------------
(* traceRay as a machine: one frame per activation                         *)

Frame(r, backgroundColor, depth) ==
  [ray |-> r,
   color |-> none,
   intersection |-> none,
   ret |-> none,
   backgroundColor |-> backgroundColor,
   depth |-> depth,
   pc |-> "enter",
   fresnelReflect |-> 0]

Top == stack[Len(stack)]
SetTop(f) == [stack EXCEPT ![Len(stack)] = f]

\* the debug counter after the entry of a call at this depth
CountCall(depth) ==
  IF depth # 0 THEN debugCount
  ELSE LET c == IF debugCount = undefined
                THEN [called |-> 0, hits |-> 0, misses |-> 0] ELSE debugCount
       IN  [c EXCEPT !.called = @ + 1]

\* the entry of traceRay(r, scene, backgroundColor, 0) on behalf of call c
StartTrace(c, r, backgroundColor) ==
  /\ stack = <<>>
  /\ (IF debugCount = undefined THEN TRUE ELSE debugCount.called < MaxRays)
  /\ stack' = <<Frame(r, backgroundColor, 0)>>
  /\ call' = c
  /\ ret' = none
  /\ UNCHANGED <<scene, raytracingSettings, debugCount, camera, cameraOps, renderer, sceneManager, page>>

\* a top-level call traceRay(r, scene, backgroundColor, 0)
TraceRayCall(r, backgroundColor) ==
  StartTrace([ray |-> r, backgroundColor |-> backgroundColor, fn |-> "traceRay"],
             r, backgroundColor)

\* the ray raytracePixel builds for pixel (x, y) of a width x height image
PixelRay(x, y, width, height) ==
  LET ndcX == 2 * Div(x * One, width * One) - One
      ndcY == One - 2 * Div(y * One, height * One)
  IN  Ray(Vector3(0, 0, 0), normalize(Vector3(ndcX, ndcY, One)))

\* the size of the image raytracePixel is asked for
ImageWidth == 100
ImageHeight == 100
\* the pixels asked for: a corner, the centre and the middles of two edges
PixelCoordinates == {0, 50}

raytracePixel(x, y, width, height, backgroundColor) ==
  StartTrace([x |-> x,
              y |-> y,
              ray |-> PixelRay(x, y, width, height),
              backgroundColor |-> backgroundColor,
              fn |-> "raytracePixel"],
             PixelRay(x, y, width, height), backgroundColor)

\* the depth check, one level late
TooDeepLate(depth) == depth > MAX_DEPTH + 1

\* the depth check, with secondary rays cut off once a ray has been counted
TooDeepOnceCounted(depth) ==
  IF debugCount = undefined THEN depth > MAX_DEPTH
  ELSE depth > MAX_DEPTH \/ (depth > 0 /\ debugCount.called > 1)

\* depth > MAX_DEPTH
TooDeep(depth) == depth > MAX_DEPTH

\* entry of a call: the depth check
TraceRayTooDeep ==
  /\ stack # <<>> /\ Top.pc = "enter"
  /\ TooDeep(Top.depth)
  /\ debugCount' = CountCall(Top.depth)
  /\ stack' = SetTop([Top EXCEPT !.pc = "return", !.ret = Top.backgroundColor])
  /\ UNCHANGED <<scene, raytracingSettings, call, ret, camera, cameraOps, renderer, sceneManager, page>>

\* the background clamped like a hit colour
MissClamped(backgroundColor) == ClampColor(backgroundColor)

\* what a call returns when its ray hits nothing
MissColor(backgroundColor) == backgroundColor

\* entry of a call: no intersection
TraceRayMiss ==
  /\ stack # <<>> /\ Top.pc = "enter"
  /\ ~TooDeep(Top.depth)
  /\ LET intersection == computeRayIntersection(Top.ray, scene)
         c == CountCall(Top.depth)
     IN  /\ intersection = null
         /\ debugCount' = IF Top.depth = 0 THEN [c EXCEPT !.misses = @ + 1] ELSE c
         /\ stack' = SetTop([Top EXCEPT !.pc = "return", !.intersection = null,
                                        !.ret = MissColor(Top.backgroundColor)])
  /\ UNCHANGED <<scene, raytracingSettings, call, ret, camera, cameraOps, renderer, sceneManager, page>>

\* entry of a call: an intersection, and its local lighting
TraceRayHit ==
  /\ stack # <<>> /\ Top.pc = "enter"
  /\ ~TooDeep(Top.depth)
  /\ LET intersection == computeRayIntersection(Top.ray, scene)
         c == CountCall(Top.depth)
     IN  /\ intersection # null
         /\ debugCount' = IF Top.depth = 0 THEN [c EXCEPT !.hits = @ + 1] ELSE c
         /\ stack' = SetTop([Top EXCEPT
                 !.pc = "reflect",
                 !.intersection = intersection,
                 !.color = calculateLighting(intersection, Top.ray, scene,
                                             raytracingSettings.enableShadows)])
  /\ UNCHANGED <<scene, raytracingSettings, call, ret, camera, cameraOps, renderer, sceneManager, page>>

\* the reflection ray of a hit
ReflectRay(r, intersection) ==
  Ray(add(intersection.point, scale(intersection.normal, EPSILON)),
      calculateReflection(r.direction, intersection.normal))

\* the refraction ray of a hit; null on total internal reflection
RefractRay(r, intersection) ==
  LET refractDir == calculateRefraction(r.direction, intersection.normal,
                                        intersection.material.refractiveIndex)
  IN  IF refractDir = null THEN null
      ELSE Ray(subtract(intersection.point, scale(intersection.normal, EPSILON)),
               refractDir)

\* the other colour added with weight k, the colour itself kept whole
BlendAdded(color, other, k) ==
  RGB(color.r + Mul(other.r, k), color.g + Mul(other.g, k), color.b + Mul(other.b, k))

\* color * (1 - k) + other * k
Blend(color, other, k) ==
  RGB(Mul(color.r, One - k) + Mul(other.r, k),
      Mul(color.g, One - k) + Mul(other.g, k),
      Mul(color.b, One - k) + Mul(other.b, k))

\* if (material.reflection > 0): the recursive call for the reflection
TraceRayReflect ==
  /\ stack # <<>> /\ Top.pc = "reflect"
  /\ IF Top.intersection.material.reflection > 0
     THEN stack' = Append(SetTop([Top EXCEPT !.pc = "reflectWait"]),
                          Frame(ReflectRay(Top.ray, Top.intersection),
                                Top.backgroundColor, Top.depth + 1))
     ELSE stack' = SetTop([Top EXCEPT !.pc = "refract"])
  /\ UNCHANGED <<scene, raytracingSettings, debugCount, call, ret, camera, cameraOps, renderer, sceneManager, page>>

\* the condition of the refraction step with the setting left out
RefractsWhateverTheSetting(material) == material.transparency > 0

\* material.transparency > 0 && raytracingSettings.enableRefraction
Refracts(material) ==
  material.transparency > 0 /\ raytracingSettings.enableRefraction

\* if (material.transparency > 0 && enableRefraction): the recursive call
\* for the refraction, unless there is total internal reflection
TraceRayRefract ==
  /\ stack # <<>> /\ Top.pc = "refract"
  /\ LET material == Top.intersection.material
         refractRay == RefractRay(Top.ray, Top.intersection)
     IN  IF Refracts(material)
         THEN IF refractRay # null
              THEN stack' = Append(
                     SetTop([Top EXCEPT
                       !.pc = "refractWait",
                       !.fresnelReflect =
                          calculateFresnelReflection(Top.ray.direction,
                                                     Top.intersection.normal,
                                                     material.refractiveIndex)]),
                     Frame(refractRay, Top.backgroundColor, Top.depth + 1))
              ELSE stack' = SetTop([Top EXCEPT !.pc = "clamp"])
         ELSE stack' = SetTop([Top EXCEPT !.pc = "clamp"])
  /\ UNCHANGED <<scene, raytracingSettings, debugCount, call, ret, camera, cameraOps, renderer, sceneManager, page>>

\* the colour object being one of the scene: the colour of the hit material
ColourObjectOfMaterial(f) == "material"

\* the object that the variable color of an activation refers to when it is
\* clamped in place: an object literal made by calculateLighting or by one
\* of the two blends, never an object of the scene or of the caller
ColourObject(f) == "literal"

\* the scene after color.r, color.g, color.b of an activation are assigned
WriteColour(sc, f, value) ==
  IF ColourObject(f) = "material"
  THEN [sc EXCEPT !.objects =
          [i \in DOMAIN sc.objects |->
             IF sc.objects[i].material = f.intersection.material
             THEN [sc.objects[i] EXCEPT !.material.color = value]
             ELSE sc.objects[i]]]
  ELSE sc

\* the final clamp of a hit
TraceRayClamp ==
  /\ stack # <<>> /\ Top.pc = "clamp"
  /\ stack' = SetTop([Top EXCEPT !.pc = "return", !.ret = ClampColor(Top.color)])
  /\ scene' = WriteColour(scene, Top, ClampColor(Top.color))
  /\ UNCHANGED <<raytracingSettings, debugCount, call, ret, camera, cameraOps, renderer, sceneManager, page>>

\* the caller's frame once the recursive call has returned color c
Resume(f, c) ==
  IF f.pc = "reflectWait"
  THEN [f EXCEPT !.pc = "refract",
                 !.color = Blend(f.color, c, f.intersection.material.reflection)]
  ELSE [f EXCEPT !.pc = "clamp",
                 !.color = Blend(f.color, c,
                                 Mul(f.intersection.material.transparency,
                                     One - f.fresnelReflect))]

\* return of a call, to the calling activation or to the top-level caller
TraceRayReturn ==
  /\ stack # <<>> /\ Top.pc = "return"
  /\ IF Len(stack) = 1
     THEN /\ stack' = <<>>
          /\ ret' = Top.ret
     ELSE /\ stack' = [SubSeq(stack, 1, Len(stack) - 1) EXCEPT
                         ![Len(stack) - 1] = Resume(stack[Len(stack) - 1], Top.ret)]
          /\ UNCHANGED ret
  /\ UNCHANGED <<scene, raytracingSettings, debugCount, call, camera, cameraOps, renderer, sceneManager, page>>

\* color*(1 - k) + other*k in each channel
Mix(color, other, k) ==
  RGB(Mul(color.r, One - k) + Mul(other.r, k),
      Mul(color.g, One - k) + Mul(other.g, k),
      Mul(color.b, One - k) + Mul(other.b, k))

\* the element of a set of one element; {F(v) : v \in {e}} is F(e) with e
\* evaluated once
Only(S) == CHOOSE v \in S : TRUE

RECURSIVE TraceColour(_, _, _, _, _, _)

\* the colour after the refraction step and the clamp: reflected is the colour
\* after the reflection step
RefractedColour(r, hit, reflected, backgroundColor, depth, sc, shadows, refraction) ==
  LET m == hit.material
      w == Mul(m.transparency,
               One - calculateFresnelReflection(r.direction, hit.normal,
                                                m.refractiveIndex))
      refracted ==
        Only({IF m.transparency > 0 /\ refraction /\ through # null
              THEN Only({Mix(reflected, T, w) :
                         T \in {TraceColour(through, backgroundColor, depth + 1,
                                            sc, shadows, refraction)}})
              ELSE reflected : through \in {RefractRay(r, hit)}})
  IN  Only({RGB(Min(One, Max(0, c.r)), Min(One, Max(0, c.g)), Min(One, Max(0, c.b))) :
            c \in {refracted}})

\* the colour after the reflection step: L is the local colour
ReflectedColour(r, hit, L, backgroundColor, depth, sc, shadows, refraction) ==
  IF hit.material.reflection > 0
  THEN Only({Mix(L, R, hit.material.reflection) :
             R \in {Only({TraceColour(reflectRay, backgroundColor, depth + 1,
                                      sc, shadows, refraction) :
                          reflectRay \in {ReflectRay(r, hit)}})}})
  ELSE L

\* the colour of a hit
HitColour(r, hit, backgroundColor, depth, sc, shadows, refraction) ==
  Only({RefractedColour(r, hit, reflected, backgroundColor, depth, sc,
                        shadows, refraction) :
        reflected \in
          {Only({ReflectedColour(r, hit, L, backgroundColor, depth, sc,
                                 shadows, refraction) :
                 L \in {calculateLighting(hit, r, sc, shadows)}})}})

\* traceRay as a function of the ray, the background, the depth, the scene
\* and the two settings that tracing reads: at a hit, the clamp of
\* ((L*(1-r) + R*r)*(1-w) + T*w)
TraceColour(r, backgroundColor, depth, sc, shadows, refraction) ==
  IF depth > 5 THEN backgroundColor
  ELSE Only({IF hit = null THEN backgroundColor
             ELSE HitColour(r, hit, backgroundColor, depth, sc, shadows, refraction) :
             hit \in {computeRayIntersection(r, sc)}})

\* toggleShadows of the control panel
ToggleShadows ==
  /\ stack = <<>>
  /\ raytracingSettings' =
       [raytracingSettings EXCEPT !.enableShadows = ~raytracingSettings.enableShadows]
  /\ UNCHANGED <<scene, debugCount, stack, call, ret, camera, cameraOps, renderer, sceneManager, page>>

\* updateRaytracingSettings of the control panel
UpdateRaytracingSettings(depth, refraction) ==
  /\ stack = <<>>
  /\ raytracingSettings' = [raytracingSettings EXCEPT !.maxReflectionDepth = depth,
                                                     !.enableRefraction = refraction]
  /\ UNCHANGED <<scene, debugCount, stack, call, ret, camera, cameraOps, renderer, sceneManager, page>>

---------------------------------------------------------------------------
(* Camera (js/camera.js)                                                   *)

\* Math.cos and Math.sin of a whole number of degrees, for the angles used
CosDeg(d) ==
  CASE Abs(d) = 0 -> One
    [] Abs(d) = 2 -> 999391
    [] Abs(d) = 20 -> 939693
    [] Abs(d) = 30 -> 866025
    [] Abs(d) = 45 -> 707107
    [] Abs(d) = 90 -> 0

SinDeg(d) ==
  (IF d < 0 THEN -1 ELSE 1) *
  (CASE Abs(d) = 0 -> 0
     [] Abs(d) = 2 -> 34899
     [] Abs(d) = 20 -> 342020
     [] Abs(d) = 30 -> 500000
     [] Abs(d) = 45 -> 707107
     [] Abs(d) = 90 -> One)

\* the angles pan and tilt are called with: the tests' and the keyboard's
Angles == {-45, -30, -2, 2, 20, 30, 45, 90}

\* new Camera(options)
Camera(options) ==
  LET position == Option(options, "position", V(0, 0, 0))
      lookAt == Option(options, "lookAt", V(0, 0, -1))
      upGuide == Option(options, "up", V(0, 1, 0))
      direction == normalize(subtract(lookAt, position))
      right == normalize(cross(direction, upGuide))
  IN  [direction |-> direction,
       position |-> position,
       up |-> normalize(cross(right, direction)),
       right |-> right,
       fov |-> Option(options, "fov", 60),
       aspectRatio |-> Option(options, "aspectRatio", One)]

\* the camera of the tests and the camera of initSceneAndCamera
TestCamera == Camera(NoOptions)
RendererCamera ==
  Camera([position |-> V(0, 0, -10), lookAt |-> V(0, 0, 5), up |-> V(0, 1, 0),
          fov |-> 60, aspectRatio |-> Div(16 * One, 9 * One)])

\* Camera.pan(degrees) applied to camera c
pan(c, degrees) ==
  LET cosTheta == CosDeg(-degrees)
      sinTheta == SinDeg(-degrees)
      newDirX == Mul(c.direction.x, cosTheta) - Mul(c.direction.z, sinTheta)
      newDirZ == Mul(c.direction.x, sinTheta) + Mul(c.direction.z, cosTheta)
      direction == normalize(Vector3(newDirX, c.direction.y, newDirZ))
      right == normalize(cross(direction, c.up))
  IN  [c EXCEPT !.direction = direction,
                !.right = right,
                !.up = normalize(cross(right, direction))]

\* Camera.tilt(degrees) applied to camera c
tilt(c, degrees) ==
  LET cosTheta == CosDeg(degrees)
      sinTheta == SinDeg(degrees)
      newDirY == Mul(c.direction.y, cosTheta) - Mul(c.direction.z, sinTheta)
      newDirZ == Mul(c.direction.y, sinTheta) + Mul(c.direction.z, cosTheta)
      direction == normalize(Vector3(c.direction.x, newDirY, newDirZ))
  IN  [c EXCEPT !.direction = direction,
                !.up = normalize(cross(c.right, direction))]

moveForward(c, distance) ==
  [c EXCEPT !.position = add(c.position, scale(c.direction, distance))]

moveRight(c, distance) ==
  [c EXCEPT !.position = add(c.position, scale(c.right, distance))]

moveUp(c, distance) ==
  [c EXCEPT !.position = add(c.position, scale(c.up, distance))]

\* how many camera operations a behaviour applies
MaxCameraOps == 2

CameraOp(c) ==
  /\ cameraOps < MaxCameraOps
  /\ camera' = c
  /\ cameraOps' = cameraOps + 1
  /\ UNCHANGED <<scene, raytracingSettings, debugCount, stack, call, ret, renderer, sceneManager, page>>

Pan(degrees) == CameraOp(pan(camera, degrees))
Tilt(degrees) == CameraOp(tilt(camera, degrees))

\* the distances the keyboard handler moves by
MoveSpeeds == {One \div 10, -(One \div 10)}

MoveForward(distance) == CameraOp(moveForward(camera, distance))
MoveRight(distance) == CameraOp(moveRight(camera, distance))
MoveUp(distance) == CameraOp(moveUp(camera, distance))

CameraInit ==
  /\ scene = EmptyScene
  /\ raytracingSettings = DefaultSettings
  /\ debugCount = undefined
  /\ stack = <<>>
  /\ call = none
  /\ ret = none
  /\ camera \in {TestCamera, RendererCamera}
  /\ cameraOps = 0
  /\ renderer = none
  /\ sceneManager = none
  /\ page = none

CameraNext ==
  \/ \E degrees \in Angles : Pan(degrees)
  \/ \E degrees \in Angles : Tilt(degrees)
  \/ \E distance \in MoveSpeeds : MoveForward(distance)
  \/ \E distance \in MoveSpeeds : MoveRight(distance)
  \/ \E distance \in MoveSpeeds : MoveUp(distance)

CameraSpec == CameraInit /\ [][CameraNext]_vars

\* resetCamera() of the page: the four fields are assigned one by one
resetCamera(c) ==
  [c EXCEPT !.position = V(0, 0, -3),
            !.direction = normalize(V(0, 0, 1)),
            !.right = V(1, 0, 0),
            !.up = V(0, 1, 0)]

ResetCamera == CameraOp(resetCamera(camera))

\* the angles of the page's keyboard handler, and no rotation at all
UiAngles == {-2, 0, 2}

\* the camera of the page: the renderer's, moved by the keys and the reset
\* button
UiCameraNext ==
  \/ \E degrees \in UiAngles : Pan(degrees)
  \/ \E degrees \in UiAngles : Tilt(degrees)
  \/ \E distance \in MoveSpeeds : MoveForward(distance)
  \/ \E distance \in MoveSpeeds : MoveRight(distance)
  \/ \E distance \in MoveSpeeds : MoveUp(distance)
  \/ ResetCamera

UiCameraSpec == CameraInit /\ [][UiCameraNext]_vars

---------------------------------------------------------------------------
(* Single calls of the exported functions                                  *)

\* a call that returns at once: its record and its result
Returns(c, value) ==
  /\ stack = <<>>
  /\ call' = c
  /\ ret' = value
  /\ UNCHANGED <<scene, raytracingSettings, debugCount, stack, camera, cameraOps, renderer, sceneManager, page>>

\* scene.objects[i].intersect(r) for a sphere
CallSphereIntersect(i, r) ==
  /\ scene.objects[i].type = "Sphere"
  /\ Returns([ray |-> r, object |-> scene.objects[i], fn |-> "Sphere.intersect"],
             SphereIntersect(scene.objects[i], r))

\* scene.objects[i].intersect(r) for a plane
CallPlaneIntersect(i, r) ==
  /\ scene.objects[i].type = "Plane"
  /\ Returns([ray |-> r, object |-> scene.objects[i], fn |-> "Plane.intersect"],
             PlaneIntersect(scene.objects[i], r))

\* computeRayIntersection(r, scene)
CallComputeRayIntersection(r) ==
  Returns([ray |-> r, fn |-> "computeRayIntersection"],
          computeRayIntersection(r, scene))

\* calculateLighting(intersection, r, scene) for the hit of r, as traceRay calls it
CallCalculateLighting(r) ==
  LET intersection == computeRayIntersection(r, scene)
  IN  /\ intersection # null
      /\ Returns([ray |-> r,
                  intersection |-> intersection,
                  enableShadows |-> raytracingSettings.enableShadows,
                  fn |-> "calculateLighting"],
                 calculateLighting(intersection, r, scene,
                                   raytracingSettings.enableShadows))

CallsNext ==
  \/ \E i \in 1..Len(scene.objects), r \in CallRays : CallSphereIntersect(i, r)
  \/ \E i \in 1..Len(scene.objects), r \in CallRays : CallPlaneIntersect(i, r)
  \/ \E r \in CallRays : CallComputeRayIntersection(r)
  \/ \E r \in TestRays : CallCalculateLighting(r)
  \/ ToggleShadows

---------------------------------------------------------------------------
(* The tracer: rays traced through a scene                                 *)

Init ==
  /\ scene \in Scenes
  /\ raytracingSettings = DefaultSettings
  /\ debugCount = undefined
  /\ stack = <<>>
  /\ call = none
  /\ ret = none
  /\ camera = none
  /\ cameraOps = 0
  /\ renderer = none
  /\ sceneManager = none
  /\ page = none

Next ==
  \/ \E r \in TestRays, bg \in Backgrounds : TraceRayCall(r, bg)
  \/ \E x \in PixelCoordinates, y \in PixelCoordinates, bg \in Backgrounds :
        raytracePixel(x, y, ImageWidth, ImageHeight, bg)
  \/ TraceRayTooDeep
  \/ TraceRayMiss
  \/ TraceRayHit
  \/ TraceRayReflect
  \/ TraceRayRefract
  \/ TraceRayClamp
  \/ TraceRayReturn
  \/ ToggleShadows
  \/ \E d \in ReflectionDepths, b \in BOOLEAN : UpdateRaytracingSettings(d, b)

Spec == Init /\ [][Next]_vars

\* single calls of the intersection and lighting functions on the same scenes
CallsSpec == Init /\ [][CallsNext]_vars


---------------------------------------------------------------------------
(* Renderer (js/renderer.js)                                               *)

\* Math.tan(fovRadians / 2) for the field of view in use, 60 degrees
TanHalfFov(fov) == CASE fov = 60 -> 577350

\* Camera.generateRay(x, y, width, height) of camera c
generateRay(c, x, y, width, height) ==
  LET ndcX == 2 * Div(x * One, width * One) - One
      ndcY == One - 2 * Div(y * One, height * One)
      halfHeight == TanHalfFov(c.fov)
      halfWidth == Mul(halfHeight, c.aspectRatio)
      dirX == Mul(ndcX, halfWidth)
      dirY == Mul(ndcY, halfHeight)
  IN  Ray(c.position,
          normalize(add(add(scale(c.right, dirX), scale(c.up, dirY)), c.direction)))

\* what initializeGPU hands to the renderer: the GPU objects of a canvas, or
\* an object with an error message; a caller may also pass null, or GPU
\* objects that carry an error message
MockGpu(width, height) ==
  [device |-> "device",
   context |-> [canvas |-> [width |-> width, height |-> height]],
   presentationFormat |-> "bgra8unorm"]
GpuError(message) == [error |-> message]
GpuWithError(gpu, message) ==
  [device |-> gpu.device, context |-> gpu.context,
   presentationFormat |-> gpu.presentationFormat, error |-> message]

\* the guard with the error field left out
GpuMissing(gpu) == gpu = null

\* !gpu || gpu.error
GpuUnusable(gpu) ==
  \/ gpu = null
  \/ IF "error" \in DOMAIN gpu THEN gpu.error # "" ELSE FALSE

\* const { device, context } = gpu gives a context: without one, reading
\* context.canvas throws inside the try block and the catch returns false
HasContext(gpu) == "context" \in DOMAIN gpu

\* the sizes of the canvas
CanvasWidths == {1, 2, 3}
CanvasHeights == {1, 2}
Gpus ==
  {null, GpuError("Test error"), GpuWithError(MockGpu(2, 2), "Test error")}
  \union {MockGpu(w, h) : w \in CanvasWidths, h \in CanvasHeights}

\* how many calls of the renderer a behaviour makes
MaxRenders == 1

\* the renderer between two calls
IdleRenderer(renders) ==
  [x |-> 0,
   y |-> 0,
   result |-> none,
   pc |-> "idle",
   fn |-> "none",
   width |-> 0,
   height |-> 0,
   gpu |-> null,
   renders |-> renders,
   imageData |-> <<>>,
   writes |-> <<>>,
   rays |-> 0,
   gpuCalls |-> <<>>]

\* the renderer after a call that traced nothing has returned result
Returned(fn, gpu, result, gpuCalls) ==
  [IdleRenderer(renderer.renders + 1) EXCEPT
     !.fn = fn, !.gpu = gpu, !.result = result, !.gpuCalls = gpuCalls]

\* what the GPU calls of a render do: all succeed, queue.writeTexture throws,
\* or an earlier call throws (a lost context)
GpuOutcomes == {"ok", "writeTextureThrows", "throws"}

\* renderPreview(gpu): the guard, then one clear pass
RenderPreview(gpu, outcome) ==
  /\ renderer.pc = "idle" /\ renderer.renders < MaxRenders
  /\ renderer' =
       IF GpuUnusable(gpu) \/ ~HasContext(gpu)
       THEN Returned("renderPreview", gpu, FALSE, <<>>)
       ELSE IF outcome = "throws"
       THEN Returned("renderPreview", gpu, FALSE, <<"createCommandEncoder">>)
       ELSE Returned("renderPreview", gpu, TRUE,
                     <<"createCommandEncoder", "getCurrentTexture", "createView",
                       "beginRenderPass", "end", "finish", "submit">>)
  /\ UNCHANGED <<scene, raytracingSettings, debugCount, stack, call, ret, camera,
                 cameraOps, sceneManager, page>>

\* new Uint8ClampedArray(n)
Zeros(n) == [i \in 1..n |-> 0]

\* const backgroundColor = { r: 0.1, g: 0.1, b: 0.2 }
RenderBackground == RGB(One \div 10, One \div 10, One \div 5)

\* renderRaytrace(gpu) up to its loop: the guard, the canvas size, the check
\* of the scene and the image buffer
RenderRaytrace(gpu) ==
  /\ renderer.pc = "idle" /\ renderer.renders < MaxRenders
  /\ renderer' =
       IF GpuUnusable(gpu) \/ ~HasContext(gpu)
       THEN Returned("renderRaytrace", gpu, FALSE, <<>>)
       ELSE IF Len(scene.objects) = 0
       THEN Returned("renderRaytrace", gpu, FALSE, <<>>)
       ELSE [renderer EXCEPT
               !.fn = "renderRaytrace", !.gpu = gpu, !.pc = "loop",
               !.x = 0, !.y = 0,
               !.width = gpu.context.canvas.width,
               !.height = gpu.context.canvas.height,
               !.imageData = Zeros(gpu.context.canvas.width
                                   * gpu.context.canvas.height * 4),
               !.writes = <<>>, !.rays = 0, !.gpuCalls = <<>>, !.result = none]
  /\ UNCHANGED <<scene, raytracingSettings, debugCount, stack, call, ret, camera,
                 cameraOps, sceneManager, page>>

\* (x * width + y) * 4
PixelIndexTransposed(x, y, width) == (x * width + y) * 4

\* const index = (y * width + x) * 4
PixelIndex(x, y, width) == (y * width + x) * 4

\* Math.floor(channel * 255)
Floor255(channel) == Mul(channel, 255 * One) \div One

\* the value an element of a Uint8ClampedArray takes when n is stored
ToUint8Clamped(n) == IF n = NaN THEN 0 ELSE Max(0, Min(255, n))

\* imageData[index] = n; a store outside the array does nothing
Store(imageData, index, n) ==
  IF index + 1 \in DOMAIN imageData
  THEN [imageData EXCEPT ![index + 1] = ToUint8Clamped(n)]
  ELSE imageData

\* one turn of the inner loop of renderRaytrace, first half: the ray of pixel
\* (x, y) and the call traceRay(ray, currentScene, backgroundColor, 0)
RenderRaytracePixel ==
  /\ renderer.pc = "loop" /\ renderer.y < renderer.height
  /\ stack = <<>>
  /\ stack' = <<Frame(generateRay(camera, renderer.x, renderer.y,
                                  renderer.width, renderer.height),
                      RenderBackground, 0)>>
  /\ ret' = none
  /\ renderer' = [renderer EXCEPT !.pc = "trace", !.rays = @ + 1]
  /\ UNCHANGED <<scene, raytracingSettings, debugCount, call, camera, cameraOps,
                 sceneManager, page>>

\* second half, once traceRay has returned: the four bytes of the pixel, and
\* the step to the next pixel of the row or to the next row
RenderRaytraceWrite ==
  /\ renderer.pc = "trace"
  /\ stack = <<>> /\ ret # none
  /\ LET x == renderer.x
         color == ret
         index == PixelIndex(x, renderer.y, renderer.width)
         last == x + 1 = renderer.width
     IN  renderer' =
           [renderer EXCEPT
              !.pc = "loop",
              !.x = IF last THEN 0 ELSE x + 1,
              !.y = IF last THEN @ + 1 ELSE @,
              !.imageData =
                 Store(Store(Store(Store(@, index + 0, Floor255(color.r)),
                                   index + 1, Floor255(color.g)),
                             index + 2, Floor255(color.b)),
                       index + 3, 255),
              !.writes = Append(@, index)]
  /\ UNCHANGED <<scene, raytracingSettings, debugCount, stack, call, ret, camera,
                 cameraOps, sceneManager, page>>

\* renderRaytrace after its loop: the image is handed to the GPU
RenderRaytraceFinish(outcome) ==
  /\ renderer.pc = "loop" /\ renderer.y = renderer.height
  /\ renderer' =
       IF outcome = "throws"
       THEN [renderer EXCEPT !.pc = "idle", !.result = FALSE,
                             !.gpuCalls = <<"getCurrentTexture">>,
                             !.renders = @ + 1]
       ELSE [renderer EXCEPT !.pc = "idle", !.result = TRUE,
                             !.gpuCalls = <<"getCurrentTexture", "writeTexture">>,
                             !.renders = @ + 1]
  /\ UNCHANGED <<scene, raytracingSettings, debugCount, stack, call, ret, camera,
                 cameraOps, sceneManager, page>>

\* the scenes rendered and the cameras they are seen from
RenderScenes == {LightingScene, ShadowScene, TwoSpheresScene, GlassScene, EmptyScene}
RenderCameras == {RendererCamera, Camera([lookAt |-> V(0, 0, 1)])}

RenderInit ==
  /\ scene \in RenderScenes
  /\ raytracingSettings = DefaultSettings
  /\ debugCount = undefined
  /\ stack = <<>>
  /\ call = none
  /\ ret = none
  /\ camera \in RenderCameras
  /\ cameraOps = 0
  /\ renderer = IdleRenderer(0)
  /\ sceneManager = none
  /\ page = none

RenderNext ==
  \/ \E gpu \in Gpus, outcome \in GpuOutcomes : RenderPreview(gpu, outcome)
  \/ \E gpu \in Gpus : RenderRaytrace(gpu)
  \/ RenderRaytracePixel
  \/ TraceRayTooDeep
  \/ TraceRayMiss
  \/ TraceRayHit
  \/ TraceRayReflect
  \/ TraceRayRefract
  \/ TraceRayClamp
  \/ TraceRayReturn
  \/ RenderRaytraceWrite
  \/ \E outcome \in GpuOutcomes : RenderRaytraceFinish(outcome)

RenderSpec == RenderInit /\ [][RenderNext]_vars

---------------------------------------------------------------------------
(* SceneManager (js/scene-manager.js)                                      *)

\* sceneManager.objects maps ids to objects. An object is known here by its
\* handle, a number from 1 given to it when it is made: sceneManager.heap[h]
\* is the object with handle h and sceneManager.refs[i] is the handle of
\* scene.objects[i], so that the same object is found in the map and in the
\* scene. sceneManager.removed keeps the ids whose removal succeeded.

\* how many objects a behaviour adds with addObject
MaxObjects == 2

\* how many ids a behaviour uses, those of the preset scenes included
MaxIds == 16

\* `obj_${n}`
IdStrings == [n \in 1..(MaxIds + 1) |-> "obj_" \o ToString(n)]

\* the ids asked for: those addObject can return, the next one, and another
Ids == {IdStrings[n] : n \in 1..(MaxObjects + 1)} \union {"nonexistent"}

\* new SceneManager(scene)
NewSceneManager ==
  [objects |-> [id \in {} |-> 0], nextId |-> 1, heap |-> <<>>, refs |-> <<>>,
   removed |-> {}]

\* object.f || default for a field that holds an object when it is present
OrDefault(object, f, default) == IF f \in DOMAIN object THEN object[f] ELSE default

\* object.f || default for a field that holds a number: 0 is replaced too
OrNumber(object, f, default) ==
  IF f \in DOMAIN object
  THEN (IF object[f] = 0 \/ object[f] = NaN THEN default ELSE object[f])
  ELSE default

\* the object that addObject adds: made from a specification with a type, or
\* the object itself
Built(object) ==
  IF object.type = "sphere"
  THEN Sphere(OrDefault(object, "center", V(0, 0, 0)),
              OrNumber(object, "radius", One),
              OrDefault(object, "material", Material(White, NoOptions)))
  ELSE IF object.type = "plane"
  THEN Plane(OrDefault(object, "point", V(0, -1, 0)),
             OrDefault(object, "normal", V(0, 1, 0)),
             OrDefault(object, "material", Material(White, NoOptions)))
  ELSE object

\* what is handed to addObject
AddedObjects ==
  {[type |-> "sphere", center |-> V(0, 0, 5), radius |-> 0],
   Plane(V(0, -1, 0), V(0, 1, 0), Material(White, NoOptions))}

\* the map with id set to handle
MapSet(objects, id, handle) ==
  [k \in DOMAIN objects \union {id} |-> IF k = id THEN handle ELSE objects[k]]

\* the map that forgets nothing
MapKeep(objects, id) == objects

\* this.objects.delete(id)
MapDelete(objects, id) == [k \in DOMAIN objects \ {id} |-> objects[k]]

\* this.objects.get(id): a handle, or 0 for undefined
MapGet(id) ==
  IF id \in DOMAIN sceneManager.objects THEN sceneManager.objects[id] ELSE 0

\* this.scene.objects.indexOf(object), counted from 1; 0 when absent
IndexOf(handle) ==
  IF \E i \in DOMAIN sceneManager.refs : sceneManager.refs[i] = handle
  THEN CHOOSE i \in DOMAIN sceneManager.refs :
         /\ sceneManager.refs[i] = handle
         /\ \A j \in 1..(i - 1) : sceneManager.refs[j] # handle
  ELSE 0

\* the object with this handle
ObjectOf(handle) == sceneManager.heap[handle]

\* a removal of every entry equal to the i-th
SpliceEqual(array, i) == SelectSeq(array, LAMBDA e : e # array[i])

\* array.splice(i, 1)
Splice(array, i) == SubSeq(array, 1, i - 1) \o SubSeq(array, i + 1, Len(array))

\* the scene and the heap after the object with this handle is changed by
\* Change
Changed(handle, Change(_)) ==
  [scene EXCEPT !.objects =
     [i \in DOMAIN scene.objects |->
        IF sceneManager.refs[i] = handle THEN Change(scene.objects[i])
        ELSE scene.objects[i]]]
ChangedHeap(handle, Change(_)) ==
  [sceneManager EXCEPT !.heap[handle] = Change(@)]

\* a call of the scene manager and what it returned
ManagerReturns(c, value) ==
  /\ call' = c
  /\ ret' = value
  /\ UNCHANGED <<raytracingSettings, debugCount, stack, camera, cameraOps, renderer, page>>

\* addObject(object)
AddObject(object) ==
  /\ sceneManager.nextId <= MaxObjects
  /\ LET id == IdStrings[sceneManager.nextId]
         handle == Len(sceneManager.heap) + 1
     IN  /\ sceneManager' =
              [sceneManager EXCEPT !.objects = MapSet(@, id, handle),
                                   !.nextId = @ + 1,
                                   !.heap = Append(@, Built(object)),
                                   !.refs = Append(@, handle)]
         /\ scene' = [scene EXCEPT !.objects = Append(@, Built(object))]
         /\ ManagerReturns([object |-> object, fn |-> "addObject"], id)

\* getObject(id)
GetObject(id) ==
  /\ UNCHANGED <<scene, sceneManager, page>>
  /\ ManagerReturns([fn |-> "getObject", id |-> id],
                    IF MapGet(id) = 0 THEN null ELSE ObjectOf(MapGet(id)))

\* removeObject(id)
RemoveObject(id) ==
  LET object == MapGet(id)
      index == IndexOf(object)
  IN  IF object = 0
      THEN /\ UNCHANGED <<scene, sceneManager, page>>
           /\ ManagerReturns([fn |-> "removeObject", id |-> id], FALSE)
      ELSE /\ scene' = IF index # 0
                       THEN [scene EXCEPT !.objects = Splice(@, index)]
                       ELSE scene
           /\ sceneManager' =
                [sceneManager EXCEPT
                   !.objects = MapDelete(@, id),
                   !.refs = IF index # 0 THEN Splice(@, index) ELSE @,
                   !.removed = @ \union {id}]
           /\ ManagerReturns([fn |-> "removeObject", id |-> id], TRUE)

\* object.center = position for a sphere, object.point = position for a plane
Moved(object, position) ==
  IF object.type = "Sphere" THEN [object EXCEPT !.center = position]
  ELSE IF object.type = "Plane" THEN [object EXCEPT !.point = position]
  ELSE object

\* updateObjectPosition(id, position)
UpdateObjectPosition(id, position) ==
  LET object == MapGet(id)
      c == [position |-> position, fn |-> "updateObjectPosition", id |-> id]
  IN  IF object = 0
      THEN UNCHANGED <<scene, sceneManager, page>> /\ ManagerReturns(c, FALSE)
      ELSE /\ scene' = Changed(object, LAMBDA o : Moved(o, position))
           /\ sceneManager' = ChangedHeap(object, LAMBDA o : Moved(o, position))
           /\ ManagerReturns(c, TRUE)

\* updateSphereRadius(id, radius)
UpdateSphereRadius(id, radius) ==
  LET object == MapGet(id)
      c == [radius |-> radius, fn |-> "updateSphereRadius", id |-> id]
  IN  IF object = 0
      THEN UNCHANGED <<scene, sceneManager, page>> /\ ManagerReturns(c, FALSE)
      ELSE IF ObjectOf(object).type # "Sphere"
      THEN UNCHANGED <<scene, sceneManager, page>> /\ ManagerReturns(c, FALSE)
      ELSE /\ scene' = Changed(object, LAMBDA o : [o EXCEPT !.radius = radius])
           /\ sceneManager' = ChangedHeap(object, LAMBDA o : [o EXCEPT !.radius = radius])
           /\ ManagerReturns(c, TRUE)

\* updateObjectMaterial(id, material)
UpdateObjectMaterial(id, material) ==
  LET object == MapGet(id)
      c == [material |-> material, fn |-> "updateObjectMaterial", id |-> id]
  IN  IF object = 0
      THEN UNCHANGED <<scene, sceneManager, page>> /\ ManagerReturns(c, FALSE)
      ELSE /\ scene' = Changed(object, LAMBDA o : [o EXCEPT !.material = material])
           /\ sceneManager' = ChangedHeap(object, LAMBDA o : [o EXCEPT !.material = material])
           /\ ManagerReturns(c, TRUE)

\* updateObjectColor(id, color)
UpdateObjectColor(id, color) ==
  LET object == MapGet(id)
      c == [color |-> color, fn |-> "updateObjectColor", id |-> id]
  IN  IF object = 0
      THEN UNCHANGED <<scene, sceneManager, page>> /\ ManagerReturns(c, FALSE)
      ELSE /\ scene' = Changed(object, LAMBDA o : [o EXCEPT !.material.color = color])
           /\ sceneManager' = ChangedHeap(object, LAMBDA o : [o EXCEPT !.material.color = color])
           /\ ManagerReturns(c, TRUE)

\* addObject(getObject(id)): the object registered under id added once more
AddObjectAgain(id) ==
  /\ sceneManager.nextId <= MaxObjects
  /\ MapGet(id) # 0
  /\ sceneManager' =
       [sceneManager EXCEPT !.objects = MapSet(@, IdStrings[sceneManager.nextId], MapGet(id)),
                            !.nextId = @ + 1,
                            !.refs = Append(@, MapGet(id))]
  /\ scene' = [scene EXCEPT !.objects = Append(@, ObjectOf(MapGet(id)))]
  /\ ManagerReturns([object |-> ObjectOf(MapGet(id)), fn |-> "addObject", id |-> id],
                    IdStrings[sceneManager.nextId])

\* a scene and its manager as a pair, for the methods that call others
Managed(sc, manager) == [scene |-> sc, sceneManager |-> manager]

\* clearScene(): scene.objects = []; objects.clear(). The lights stay, and so
\* does nextId. No reference to an object is left, so the heap is empty again.
Cleared(m) ==
  Managed([m.scene EXCEPT !.objects = <<>>],
          [m.sceneManager EXCEPT !.objects = [id \in {} |-> 0],
                                 !.heap = <<>>,
                                 !.refs = <<>>])

\* addObject(object) for a new object, as the preset scenes call it
WithObject(m, object) ==
  Managed([m.scene EXCEPT !.objects = Append(@, Built(object))],
          [m.sceneManager EXCEPT
             !.objects = MapSet(@, IdStrings[m.sceneManager.nextId],
                                Len(m.sceneManager.heap) + 1),
             !.nextId = @ + 1,
             !.heap = Append(@, Built(object)),
             !.refs = Append(@, Len(m.sceneManager.heap) + 1)])

RECURSIVE WithObjects(_, _)
WithObjects(m, objects) ==
  IF objects = <<>> THEN m
  ELSE WithObjects(WithObject(m, Head(objects)), Tail(objects))

\* scene.addLight(light), one light after the other
WithLights(m, lights) == Managed([m.scene EXCEPT !.lights = @ \o lights], m.sceneManager)

\* n/100
Hundredths(n) == n * (One \div 100)
Point(x, y, z) == Vector3(Hundredths(x), Hundredths(y), Hundredths(z))
Colour(r, g, b) == RGB(Hundredths(r), Hundredths(g), Hundredths(b))

\* the objects of createDefaultScene
DefaultObjects ==
  <<Sphere(V(0, 0, 5), One, Material(Colour(100, 10, 10), NoOptions)),
    Sphere(Point(-120, 50, 400), Hundredths(70), Material(Colour(10, 40, 100), NoOptions)),
    Sphere(Point(120, 30, 350), Hundredths(50), Material(Colour(10, 80, 10), NoOptions)),
    Plane(V(0, -1, 0), V(0, 1, 0), Material(Colour(80, 80, 80), NoOptions))>>

\* the objects of createCornellBox (WALL_SIZE = 5): floor, ceiling, back, left
\* and right wall, mirror sphere, glass sphere, matte sphere
WallMaterial(color) ==
  Material(color, [diffuse |-> Hundredths(80), specular |-> Hundredths(20)])
CornellObjects ==
  <<Plane(Point(0, -250, 0), V(0, 1, 0),
          Material(Colour(90, 90, 90),
                   [diffuse |-> Hundredths(70), specular |-> Hundredths(30),
                    reflection |-> Hundredths(20)])),
    Plane(Point(0, 250, 0), V(0, -1, 0), WallMaterial(Colour(90, 90, 90))),
    Plane(Point(0, 0, 750), V(0, 0, -1), WallMaterial(Colour(90, 90, 90))),
    Plane(Point(-250, 0, 0), V(1, 0, 0), WallMaterial(Colour(90, 10, 10))),
    Plane(Point(250, 0, 0), V(-1, 0, 0), WallMaterial(Colour(10, 90, 10))),
    Sphere(Point(-125, -150, 625), One,
           Material(Colour(90, 90, 90),
                    [diffuse |-> Hundredths(10), specular |-> Hundredths(90),
                     shininess |-> 64, reflection |-> Hundredths(80)])),
    Sphere(Point(125, -200, 700), Hundredths(50),
           Material(Colour(80, 80, 90),
                    [diffuse |-> Hundredths(10), specular |-> Hundredths(90),
                     shininess |-> 64, reflection |-> Hundredths(10),
                     transparency |-> Hundredths(90),
                     refractiveIndex |-> Hundredths(150)])),
    Sphere(Point(0, -220, 800), Hundredths(30),
           Material(Colour(90, 20, 10),
                    [diffuse |-> Hundredths(90), specular |-> Hundredths(10),
                     reflection |-> 0]))>>

\* the lights createCornellBox adds
CornellLights ==
  <<Light("point", [color |-> Colour(100, 100, 100), position |-> Point(0, 200, 625),
                    intensity |-> One]),
    Light("point", [color |-> Colour(90, 80, 70), position |-> Point(-150, 0, 525),
                    intensity |-> Hundredths(50)]),
    Light("directional", [direction |-> Point(50, -100, 50),
                          color |-> Colour(20, 20, 30),
                          intensity |-> Hundredths(20)])>>

\* the scene after createCornellBox on a new scene
CornellScene == Scene(CornellObjects, CornellLights)

\* a method of the manager that changes scene and manager to m
Becomes(m, c, value) ==
  /\ scene' = m.scene
  /\ sceneManager' = m.sceneManager
  /\ ManagerReturns(c, value)

\* clearScene()
ClearScene ==
  Becomes(Cleared(Managed(scene, sceneManager)), [fn |-> "clearScene"], undefined)

\* createDefaultScene()
CreateDefaultScene ==
  /\ sceneManager.nextId + Len(DefaultObjects) <= MaxIds + 1
  /\ Becomes(WithObjects(Cleared(Managed(scene, sceneManager)), DefaultObjects),
             [fn |-> "createDefaultScene"], undefined)

\* createCornellBox(); returns this.scene
CreateCornellBox ==
  /\ sceneManager.nextId + Len(CornellObjects) <= MaxIds + 1
  /\ LET m == WithLights(WithObjects(Cleared(Managed(scene, sceneManager)),
                                     CornellObjects),
                         CornellLights)
     IN  Becomes(m, [fn |-> "createCornellBox"], m.scene)

ManagerInit ==
  /\ scene = EmptyScene
  /\ raytracingSettings = DefaultSettings
  /\ debugCount = undefined
  /\ stack = <<>>
  /\ call = none
  /\ ret = none
  /\ camera = none
  /\ cameraOps = 0
  /\ renderer = none
  /\ sceneManager = NewSceneManager
  /\ page = none

ManagerNext ==
  \/ \E object \in AddedObjects : AddObject(object)
  \/ \E id \in Ids : GetObject(id)
  \/ \E id \in Ids : RemoveObject(id)
  \/ \E id \in Ids : UpdateObjectPosition(id, V(1, 2, 3))
  \/ \E id \in Ids : UpdateSphereRadius(id, 3 * One)
  \/ \E id \in Ids : UpdateObjectMaterial(id, Material(Green, NoOptions))
  \/ \E id \in Ids : UpdateObjectColor(id, Green)

ManagerSpec == ManagerInit /\ [][ManagerNext]_vars

---------------------------------------------------------------------------
(* Single calls of the vector functions (js/math.js)                       *)

\* the vectors handed to the vector functions: every combination of these
\* components, the zero vector among them
Components == {-2 * One, -One, 0, One \div 2, One, 3 * One}
Vectors == {Vector3(x, y, z) : x \in Components, y \in Components, z \in Components}

\* normalize(v); the call record keeps v as it is after the call, which never
\* assigns to a field of v
CallNormalize(v) ==
  /\ Returns([v |-> v, fn |-> "normalize", after |-> v], normalize(v))
  /\ UNCHANGED <<renderer, sceneManager, page>>

MathInit ==
  /\ scene = EmptyScene
  /\ raytracingSettings = DefaultSettings
  /\ debugCount = undefined
  /\ stack = <<>>
  /\ call = none
  /\ ret = none
  /\ camera = none
  /\ cameraOps = 0
  /\ renderer = none
  /\ sceneManager = none
  /\ page = none

MathNext == \E v \in Vectors : CallNormalize(v)

MathSpec == MathInit /\ [][MathNext]_vars

---------------------------------------------------------------------------
(* Refraction: calculateRefraction alone and inside traceRay               *)

\* incident directions: those of the two refraction tests, along and against
\* the normal, along the surface, and at 45 and at 27 degrees from the normal
\* on either side
Incidents ==
  {normalize(Vector3(One \div 2, -(One \div 2), 707100)),
   normalize(Vector3(999800, 20000, 0)),
   V(0, 1, 0), V(0, -1, 0), V(1, 0, 0),
   normalize(V(1, 1, 0)), normalize(V(1, -1, 0)),
   normalize(V(1, 2, 0)), normalize(V(1, -2, 0))}

\* glass, the ratio the skipped test passes, and no change of medium
RefractiveIndices == {15 * (One \div 10), Div(One, 15 * (One \div 10)), One}

\* calculateRefraction(incident, normal, refrIndex)
CallCalculateRefraction(incident, normal, refrIndex) ==
  /\ Returns([normal |-> normal,
              incident |-> incident,
              refrIndex |-> refrIndex,
              fn |-> "calculateRefraction"],
             calculateRefraction(incident, normal, refrIndex))
  /\ UNCHANGED <<renderer, sceneManager, page>>

\* rays into the glass sphere: through its centre and off its axis
GlassRays ==
  {Ray(V(0, 0, 0), V(0, 0, 1)),
   Ray(V(0, 0, 0), normalize(V(0, 1, 10)))}

RefractionInit ==
  /\ scene = GlassScene
  /\ raytracingSettings = DefaultSettings
  /\ debugCount = undefined
  /\ stack = <<>>
  /\ call = none
  /\ ret = none
  /\ camera = none
  /\ cameraOps = 0
  /\ renderer = none
  /\ sceneManager = none
  /\ page = none

RefractionNext ==
  \/ \E incident \in Incidents, refrIndex \in RefractiveIndices :
        CallCalculateRefraction(incident, V(0, 1, 0), refrIndex)
  \/ \E r \in GlassRays, bg \in Backgrounds : TraceRayCall(r, bg)
  \/ TraceRayTooDeep
  \/ TraceRayMiss
  \/ TraceRayHit
  \/ TraceRayReflect
  \/ TraceRayRefract
  \/ TraceRayClamp
  \/ TraceRayReturn

RefractionSpec == RefractionInit /\ [][RefractionNext]_vars

---------------------------------------------------------------------------
(* Single calls of calculateLighting                                       *)

\* the lit sphere with shininess 0, and with shininess 1
ShinelessScene ==
  Scene(<<Sphere(V(0, 0, 5), One, Material(Red, [shininess |-> 0]))>>,
        <<PointLight333>>)
DullScene ==
  Scene(<<Sphere(V(0, 0, 5), One, Material(Red, [shininess |-> 1]))>>,
        <<PointLight333,
          Light("directional", [direction |-> V(0, -1, 0), intensity |-> One \div 2])>>)

LightingScenes ==
  {LightingScene, ShadowScene, HalfShadowScene, TwoSpheresScene, FloorScene,
   ShinelessScene, DullScene}

\* rays that meet the surfaces on the side of the lights and on the far side
LightingRays ==
  TestRays \union
  {Ray(V(0, 0, 8), V(0, 0, -1)),
   Ray(V(0, 5, 5), V(0, -1, 0)),
   Ray(V(0, -5, 5), V(0, 1, 0)),
   Ray(V(5, 0, 5), V(-1, 0, 0)),
   Ray(V(-5, 0, 5), V(1, 0, 0)),
   Ray(V(0, 0, 0), normalize(V(0, 1, 10)))}

LightingInit ==
  /\ scene \in LightingScenes
  /\ raytracingSettings = DefaultSettings
  /\ debugCount = undefined
  /\ stack = <<>>
  /\ call = none
  /\ ret = none
  /\ camera = none
  /\ cameraOps = 0
  /\ renderer = none
  /\ sceneManager = none
  /\ page = none

LightingNext ==
  \/ \E r \in LightingRays : CallCalculateLighting(r)
  \/ ToggleShadows

LightingSpec == LightingInit /\ [][LightingNext]_vars

---------------------------------------------------------------------------
(* Single calls of Plane.intersect with grazing rays                       *)

\* the floor y = -1 of the tests, alone
GrazedScene == Scene(<<Plane(V(0, -1, 0), V(0, 1, 0), Material(Green, NoOptions))>>, <<>>)

\* rays that start just above, on and just below the floor and run along it:
\* dot(direction, normal) is the y component of the direction, from -0.001
\* to 0.001
GrazingHeights == {-1001000, -One, -999000, -998000, -990000}
GrazingSlopes == {-1000, -999, -500, -101, -100, -99, -50, 0, 50, 100, 500, 1000}
GrazingRays ==
  {Ray(Vector3(0, y, 0), Vector3(One, dy, dz)) :
     y \in GrazingHeights, dy \in GrazingSlopes, dz \in {0, One}}

PlaneInit ==
  /\ scene = GrazedScene
  /\ raytracingSettings = DefaultSettings
  /\ debugCount = undefined
  /\ stack = <<>>
  /\ call = none
  /\ ret = none
  /\ camera = none
  /\ cameraOps = 0
  /\ renderer = none
  /\ sceneManager = none
  /\ page = none

PlaneNext == \E r \in GrazingRays : CallPlaneIntersect(1, r)

PlaneSpec == PlaneInit /\ [][PlaneNext]_vars

\* the ids the methods are called with: the first ids given, and one never
\* given
SceneIds == {IdStrings[1], IdStrings[2], "nonexistent"}

\* every method of the manager, on the scene of a new manager
SceneNext ==
  \/ \E object \in AddedObjects : AddObject(object)
  \/ \E id \in SceneIds : AddObjectAgain(id)
  \/ \E id \in SceneIds : GetObject(id)
  \/ \E id \in SceneIds : RemoveObject(id)
  \/ \E id \in SceneIds : UpdateObjectPosition(id, V(1, 2, 3))
  \/ \E id \in SceneIds : UpdateSphereRadius(id, 3 * One)
  \/ \E id \in SceneIds : UpdateObjectMaterial(id, Material(Green, NoOptions))
  \/ \E id \in SceneIds : UpdateObjectColor(id, Green)
  \/ ClearScene
  \/ CreateDefaultScene
  \/ CreateCornellBox

SceneSpec == ManagerInit /\ [][SceneNext]_vars

---------------------------------------------------------------------------
(* The page: getGPUContext and the handlers that call it (main.js)         *)

\* how many calls of getGPUContext a behaviour makes
MaxCalls == 3

\* what initializeGPU(canvas) resolves to: the GPU objects, or an object with
\* an error message
GpuResults == {MockGpu(2, 2), GpuError("Failed to get GPU adapter.")}

\* what the GPU calls of a render do
PageOutcomes == {"ok", "throws"}

\* the page before DOMContentLoaded. awaiting: the callers of getGPUContext
\* that wait for initializeGPU, in the order of their calls; log: what has
\* been called and what it has returned, in order
NewPage ==
  [pc |-> "new", gpuContext |-> null, awaiting |-> <<>>, status |-> "", log |-> <<>>]

Event(ev, caller, gpu, result) ==
  [result |-> result, gpu |-> gpu, ev |-> ev, caller |-> caller]

\* what renderPreview(gpu) and renderRaytrace(gpu) return
RenderResult(fn, gpu, outcome) ==
  /\ ~(GpuUnusable(gpu) \/ ~HasContext(gpu))
  /\ fn = "renderRaytrace" => Len(scene.objects) > 0
  /\ outcome = "ok"

\* the handler of caller from the point where 'await getGPUContext()' has
\* given gpu: the page's load handler assigns it to gpuContext, every handler
\* renders 'if (gpu)', and the await of the render lets no event in
Continued(p, caller, gpu, outcome) ==
  LET got == [p EXCEPT !.log = Append(@, Event("getGPUContext", caller, gpu, FALSE))]
      fn == IF caller = "raytrace" THEN "renderRaytrace" ELSE "renderPreview"
      rendered ==
        [got EXCEPT !.log = Append(@, Event(fn, caller, gpu, RenderResult(fn, gpu, outcome)))]
  IN  IF caller = "load"
      THEN IF gpu # null
           THEN [rendered EXCEPT
                   !.pc = "ready", !.gpuContext = gpu,
                   !.status = "Preview loaded. Use controls to interact with the scene."]
           ELSE [got EXCEPT
                   !.pc = "ready", !.gpuContext = gpu,
                   !.status = "Failed to initialize GPU. Please check if your browser supports WebGPU."]
      ELSE IF gpu = null THEN got
      ELSE IF caller = "preview"
      THEN [rendered EXCEPT !.status = "Preview render completed"]
      ELSE rendered

\* getGPUContext() called by caller: with gpuContext set it returns it, and
\* the handler goes on without an event in between; otherwise it calls
\* initializeGPU(canvas) and waits
Calls(p, caller, outcome) ==
  IF p.gpuContext = null
  THEN [p EXCEPT !.awaiting = Append(@, caller),
                 !.log = Append(@, Event("initializeGPU", caller, null, FALSE))]
  ELSE Continued(p, caller, p.gpuContext, outcome)

\* a step of the page
PageStep(p) ==
  /\ page' = p
  /\ UNCHANGED <<scene, raytracingSettings, debugCount, stack, call, ret, camera,
                 cameraOps, renderer, sceneManager>>

\* the calls of getGPUContext made so far
GpuContextCalls ==
  Len(page.awaiting)
    + Cardinality({i \in 1..Len(page.log) : page.log[i].ev = "getGPUContext"})

\* the DOMContentLoaded handler up to 'gpuContext = await getGPUContext()'
DomContentLoaded ==
  /\ page.pc = "new"
  /\ PageStep(Calls([page EXCEPT !.pc = "loading",
                                 !.status = "Initializing GPU and rendering preview..."],
                    "load", "ok"))

\* updatePreview(), called by the camera controls and the panel, which are
\* set up before the page waits for the GPU
UpdatePreview(outcome) ==
  /\ page.pc \in {"loading", "ready"}
  /\ GpuContextCalls < MaxCalls
  /\ PageStep(Calls(page, "update", outcome))

\* a button is disabled while its handler runs
Disabled(button) == \E i \in 1..Len(page.awaiting) : page.awaiting[i] = button

\* a click on the preview button, whose listener is added after the load
\* handler's await
ClickPreview(outcome) ==
  /\ page.pc = "ready" /\ ~Disabled("preview")
  /\ GpuContextCalls < MaxCalls
  /\ PageStep(Calls([page EXCEPT !.status = "Rendering preview..."], "preview", outcome))

\* a click on the raytrace button
ClickRaytrace(outcome) ==
  /\ page.pc = "ready" /\ ~Disabled("raytrace")
  /\ GpuContextCalls < MaxCalls
  /\ PageStep(Calls([page EXCEPT !.status = "Starting raytracing..."], "raytrace", outcome))

\* initializeGPU resolves for the i-th waiting caller: getGPUContext assigns
\* the result to gpuContext and returns null if it has an error, gpuContext
\* otherwise; then the caller goes on
InitializeGPUResolves(i, gpu, outcome) ==
  /\ i \in 1..Len(page.awaiting)
  /\ LET caller == page.awaiting[i]
         p == [page EXCEPT
                 !.gpuContext = gpu,
                 !.awaiting = SubSeq(@, 1, i - 1) \o SubSeq(@, i + 1, Len(@)),
                 !.log = Append(@, Event("initialized", caller, gpu, FALSE))]
     IN  PageStep(Continued(p, caller, IF GpuUnusable(gpu) THEN null ELSE p.gpuContext,
                            outcome))

\* the page after initSceneAndCamera(): the Cornell box and the renderer's
\* camera
PageInit ==
  /\ scene = CornellScene
  /\ raytracingSettings = DefaultSettings
  /\ debugCount = undefined
  /\ stack = <<>>
  /\ call = none
  /\ ret = none
  /\ camera = RendererCamera
  /\ cameraOps = 0
  /\ renderer = none
  /\ sceneManager = WithObjects(Managed(EmptyScene, NewSceneManager), CornellObjects).sceneManager
  /\ page = NewPage

PageNext ==
  \/ DomContentLoaded
  \/ \E outcome \in PageOutcomes : UpdatePreview(outcome)
  \/ \E outcome \in PageOutcomes : ClickPreview(outcome)
  \/ \E outcome \in PageOutcomes : ClickRaytrace(outcome)
  \/ \E i \in 1..MaxCalls, gpu \in GpuResults, outcome \in PageOutcomes :
       InitializeGPUResolves(i, gpu, outcome)

PageSpec == PageInit /\ [][PageNext]_vars

---------------------------------------------------------------------------
(* Building a scene: Light, Scene.addLight, SceneManager                   *)

\* what is handed to addObject while a scene is built: a specification of a
\* sphere with radius -1, a Sphere of radius 0 and a Sphere of radius 1
BuildObjects ==
  {[type |-> "sphere", center |-> V(0, 0, 5), radius |-> -One],
   Sphere(V(0, 0, 5), 0, Material(Red, NoOptions)),
   Sphere(V(0, 0, 5), One, Material(Red, NoOptions))}

\* the radii handed to updateSphereRadius
BuildRadii == {-One, 0, 2 * One}

\* the lights made with new Light(type, options): the two kinds the tracer
\* knows and a kind it does not
BuildLights ==
  {Light("point", [position |-> V(3, 3, 3)]),
   Light("directional", [direction |-> V(0, 0, 1)]),
   Light("spot", [position |-> V(3, 3, 3)])}

\* scene.addLight(new Light(type, options))
SceneAddLight(light) ==
  /\ Len(scene.lights) < MaxObjects
  /\ scene' = [scene EXCEPT !.lights = Append(@, light)]
  /\ UNCHANGED sceneManager
  /\ ManagerReturns([light |-> light, fn |-> "addLight"], undefined)

BuildNext ==
  \/ \E object \in BuildObjects : AddObject(object)
  \/ \E light \in BuildLights : SceneAddLight(light)
  \/ \E id \in Ids, radius \in BuildRadii : UpdateSphereRadius(id, radius)

BuildSpec == ManagerInit /\ [][BuildNext]_vars

---------------------------------------------------------------------------
(* Properties                                                              *)

Frames == 1..Len(stack)

\* the last call from outside was to f
Called(f) == call # none /\ call.fn = f

\* a top-level trace has returned
Traced == call # none /\ call.fn \in {"traceRay", "raytracePixel"} /\ ret # none

InUnit(c) == 0 <= c /\ c <= One
ColorInUnit(color) == InUnit(color.r) /\ InUnit(color.g) /\ InUnit(color.b)

\* a >= b as JavaScript evaluates it
Ge(a, b) == a # NaN /\ b # NaN /\ a >= b

\* an activation that found an intersection
HasHit(f) == f.intersection # none /\ f.intersection # null

\* the most steps a call at this depth can take, its return included
RECURSIVE Budget(_)
Budget(depth) == IF depth > 5 THEN 2 ELSE 5 + 2 * Budget(depth + 1)

\* the most steps an activation can still take, the calls it has yet to make
\* included, the call it is waiting for excluded
Remaining(f) ==
  CASE f.pc = "enter" -> Budget(f.depth)
    [] f.pc = "reflect" -> 4 + 2 * Budget(f.depth + 1)
    [] f.pc \in {"reflectWait", "refract"} -> 3 + Budget(f.depth + 1)
    [] f.pc \in {"refractWait", "clamp"} -> 2
    [] f.pc = "return" -> 1

RECURSIVE RemainingFrom(_, _)
RemainingFrom(frames, i) ==
  IF i > Len(frames) THEN 0 ELSE Remaining(frames[i]) + RemainingFrom(frames, i + 1)

\* C1: every top-level call of traceRay terminates (while a call is active
\* its innermost activation is at a step, never waiting, and every step
\* lowers the number of steps that remain); an activation with depth > 5 returns the background colour
\* without computing an intersection, each recursive call has the depth of
\* its caller plus one, and no activation has depth > 6.
C1_TraceRayTerminates ==
  /\ [](\A i \in Frames :
          /\ stack[i].depth = i - 1
          /\ stack[i].depth <= 6
          /\ (stack[i].depth > 5 /\ stack[i].pc # "enter")
               => /\ stack[i].pc = "return"
                  /\ stack[i].ret = stack[i].backgroundColor
                  /\ stack[i].intersection = none)
  /\ [](stack # <<>> => Top.pc \in {"enter", "reflect", "refract", "clamp", "return"})
  /\ [][stack # <<>> => RemainingFrom(stack', 1) < RemainingFrom(stack, 1)]_vars

\* a chain of reflections in which every ray hit something reaches depth 6
\* and is cut off there
C1_Witness ==
  /\ Len(stack) = 7
  /\ Top.depth = 6 /\ Top.pc = "return"
  /\ \A i \in 1..6 : HasHit(stack[i])

\* C2 as stated: every colour that traceRay and calculateLighting return
\* has its channels in [0,1], whatever the background colour.
C2_EveryColourInUnit ==
  /\ \A i \in Frames : stack[i].pc = "reflect" => ColorInUnit(stack[i].color)
  /\ \A i \in Frames : stack[i].pc = "return" => ColorInUnit(stack[i].ret)
  /\ Traced => ColorInUnit(ret)

\* C2, amended: every colour calculateLighting returns, and every colour
\* traceRay returns for a ray that hits an object at depth <= 5, has its
\* channels in [0,1]; for a ray that hits nothing, or at depth > 5, traceRay
\* returns the background colour as supplied, in [0,1] only if that is.
C2_HitColoursInUnit ==
  /\ \A i \in Frames : stack[i].pc = "reflect" => ColorInUnit(stack[i].color)
  /\ \A i \in Frames :
       stack[i].pc = "return"
         => IF HasHit(stack[i]) THEN ColorInUnit(stack[i].ret)
            ELSE ColorInUnit(stack[i].ret) <=> ColorInUnit(stack[i].backgroundColor)
  /\ Traced
       => IF computeRayIntersection(call.ray, scene) # null THEN ColorInUnit(ret)
          ELSE ColorInUnit(ret) <=> ColorInUnit(call.backgroundColor)

\* a hit whose colour the clamp cut down to 1, traced over a background
\* that lies outside [0,1]
C2_Witness ==
  /\ Traced
  /\ computeRayIntersection(call.ray, scene) # null
  /\ ~ColorInUnit(call.backgroundColor)
  /\ ret.r = One

\* C4: a traced ray that hits no object returns exactly the supplied
\* background colour, at any depth <= 5; raytracePixel on an empty scene
\* returns exactly the supplied background colour.
C4_MissReturnsBackground ==
  /\ \A i \in Frames :
       /\ stack[i].backgroundColor = call.backgroundColor
       /\ (stack[i].pc = "return" /\ stack[i].intersection = null)
            => stack[i].depth <= 5 /\ stack[i].ret = call.backgroundColor
  /\ (Traced /\ computeRayIntersection(call.ray, scene) = null)
       => ret = call.backgroundColor
  /\ (Traced /\ call.fn = "raytracePixel" /\ scene.objects = <<>>)
       => ret = call.backgroundColor

\* raytracePixel on the empty scene has returned a background outside [0,1]
C4_Witness ==
  /\ Traced /\ call.fn = "raytracePixel"
  /\ scene.objects = <<>>
  /\ ~ColorInUnit(call.backgroundColor)
  /\ ret = call.backgroundColor

\* C6 as stated: no reflection or refraction ray is traced at a depth beyond
\* raytracingSettings.maxReflectionDepth.
C6_ReflectionDepthRespected ==
  \A i \in Frames :
    stack[i].depth > raytracingSettings.maxReflectionDepth
      => stack[i].intersection = none

\* rounding allowed where a property says "up to rounding": the tolerance of
\* the tests' toBeCloseTo(0, 1) for the camera, five digits for a hit point
CameraTolerance == One \div 20
PointTolerance == One \div 100000

\* C3 as stated: computeRayIntersection returns null exactly when no object
\* reports an intersection; otherwise it returns the intersection of least
\* distance, the first in scene.objects among those of that distance; the
\* distance found does not depend on the order of scene.objects.
C3_NearestFirst ==
  Called("computeRayIntersection")
    => LET objects == scene.objects
           found(i) == intersect(objects[i], call.ray)
           hits == {i \in 1..Len(objects) : found(i) # null}
           reversed == [i \in 1..Len(objects) |-> objects[Len(objects) + 1 - i]]
           other == computeRayIntersection(call.ray, Scene(reversed, scene.lights))
       IN  /\ ret = null <=> hits = {}
           /\ other = null <=> hits = {}
           /\ ret # null
                => /\ \E i \in hits :
                        /\ ret = found(i)
                        /\ \A j \in hits : Ge(found(j).distance, ret.distance)
                        /\ \A j \in hits : j < i => found(j).distance # ret.distance
                   /\ other # null /\ other.distance = ret.distance

\* C7 as stated: Sphere.intersect reports no hit when the discriminant is
\* negative; otherwise it returns the smaller root if that is >= 0.001, else
\* the larger root if that is >= 0.001, else no hit; every intersection it
\* returns has distance >= 0.001.
C7_SphereRoots ==
  Called("Sphere.intersect")
    => LET oc == subtract(call.ray.origin, call.object.center)
           a == dot(call.ray.direction, call.ray.direction)
           b == 2 * dot(oc, call.ray.direction)
           c == dot(oc, oc) - Mul(call.object.radius, call.object.radius)
           discriminant == Mul(b, b) - Mul(4 * a, c)
           t1 == Div((-b) - Sqrt(discriminant), 2 * a)
           t2 == Div((-b) + Sqrt(discriminant), 2 * a)
       IN  /\ discriminant < 0 => ret = null
           /\ discriminant >= 0
                => IF Ge(t1, EPSILON) THEN ret # null /\ ret.distance = t1
                   ELSE IF Ge(t2, EPSILON) THEN ret # null /\ ret.distance = t2
                   ELSE ret = null
           /\ ret # null => Ge(ret.distance, EPSILON)

\* C8: Plane.intersect reports no hit when dot(direction, normal) > 0 and
\* when t = dot(point - origin, normal) / dot(direction, normal) < 0.001; a
\* hit it reports has the plane's stored normal, distance t >= 0.001 and a
\* point on the plane.
C8_PlaneOneSided ==
  Called("Plane.intersect")
    => LET plane == call.object
           denom == dot(call.ray.direction, plane.normal)
           t == Div(dot(subtract(plane.point, call.ray.origin), plane.normal), denom)
       IN  /\ denom > 0 => ret = null
           /\ Lt(t, EPSILON) => ret = null
           /\ ret # null
                => /\ ret.normal = plane.normal
                   /\ ret.distance = t
                   /\ t >= EPSILON
                   /\ ret.point = add(call.ray.origin, scale(call.ray.direction, t))
                   /\ Abs(dot(subtract(ret.point, plane.point), plane.normal))
                        <= PointTolerance

\* a ray that meets a plane from behind, in front of its origin, and is
\* reported not to hit it
C8_Witness ==
  /\ Called("Plane.intersect")
  /\ dot(call.ray.direction, call.object.normal) > 0
  /\ Div(dot(subtract(call.object.point, call.ray.origin), call.object.normal),
         dot(call.ray.direction, call.object.normal)) >= EPSILON
  /\ ret = null

\* C5 as stated: after any sequence of pan and tilt calls the vectors right,
\* up and direction are unit vectors, orthogonal in pairs, up to rounding.
C5_Orthonormal ==
  /\ Abs(dot(camera.right, camera.up)) <= CameraTolerance
  /\ Abs(dot(camera.right, camera.direction)) <= CameraTolerance
  /\ Abs(dot(camera.up, camera.direction)) <= CameraTolerance
  /\ Abs(length(camera.right) - One) <= CameraTolerance
  /\ Abs(length(camera.up) - One) <= CameraTolerance
  /\ Abs(length(camera.direction) - One) <= CameraTolerance

\* the shadow ray of a light from a point has its nearest hit nearer than
\* the light
Blocked(light, point) ==
  LET hit == computeRayIntersection(Ray(point, LightDir(light, point)), scene)
  IN  hit # null /\ Lt(hit.distance, LightDistance(light, point))

\* the lights of the scene, in order, that the point is not shadowed from
Unblocked(point) ==
  SelectSeq(scene.lights, LAMBDA light : ~Blocked(light, point))

\* C9: with shadows enabled, calculateLighting adds no diffuse and no
\* specular term for a light whose shadow ray has its nearest hit nearer
\* than the light: the result is the one the unblocked lights alone give,
\* and color x ambient in each channel when every light is blocked.
C9_BlockedLightsAddNothing ==
  (Called("calculateLighting") /\ call.enableShadows)
    => LET material == call.intersection.material
           lit == Unblocked(call.intersection.point)
       IN  /\ ret = calculateLighting(call.intersection, call.ray,
                                      Scene(scene.objects, lit), FALSE)
           /\ lit = <<>>
                => ret = RGB(Mul(material.color.r, material.ambient),
                             Mul(material.color.g, material.ambient),
                             Mul(material.color.b, material.ambient))

\* a point with one light blocked and one not, lit by more than the ambient
\* term but less than with both lights
C9_Witness ==
  /\ Called("calculateLighting") /\ call.enableShadows
  /\ Len(scene.lights) = 2
  /\ Len(Unblocked(call.intersection.point)) = 1
  /\ ret.r > Mul(call.intersection.material.color.r, call.intersection.material.ambient)
  /\ ret.r < calculateLighting(call.intersection, call.ray, scene, FALSE).r

\* C10: for the same intersection, ray and scene, each channel that
\* calculateLighting computes with shadows disabled is at least the channel
\* it computes with shadows enabled.
C10_ShadowsOffNotDarker ==
  [][(/\ Called("calculateLighting") /\ call.enableShadows
      /\ call'.fn = "calculateLighting" /\ ~call'.enableShadows
      /\ call'.intersection = call.intersection
      /\ call'.ray = call.ray)
       => /\ ret'.r >= ret.r
          /\ ret'.g >= ret.g
          /\ ret'.b >= ret.b]_vars

\* the same point lit with shadows disabled, brighter than calculateLighting
\* makes it with shadows enabled
C10_Witness ==
  /\ Called("calculateLighting") /\ ~call.enableShadows
  /\ ret.r > calculateLighting(call.intersection, call.ray, scene, TRUE).r

\* C11: tracing is deterministic: the colour a top-level call of traceRay is
\* about to return is the function TraceColour of its ray, its background,
\* the scene and the settings, whatever rays were traced before and whatever
\* the debug counters hold.
C11_Deterministic ==
  (Len(stack) = 1 /\ Top.pc = "return")
    => Top.ret = TraceColour(Top.ray, Top.backgroundColor, Top.depth, scene,
                             raytracingSettings.enableShadows,
                             raytracingSettings.enableRefraction)

\* the second ray of a run, the same ray as the first, which hit and was
\* reflected, about to return at depth 0 with the counters advanced
C11_Witness ==
  /\ Len(stack) = 1 /\ Top.pc = "return" /\ HasHit(Top)
  /\ Top.intersection.material.reflection > 0
  /\ debugCount.called = 2 /\ debugCount.hits = 2

Opaque(sc) ==
  [sc EXCEPT !.objects =
     [i \in DOMAIN sc.objects |->
        [sc.objects[i] EXCEPT !.material.transparency = 0]]]

\* a top-level call about to return
Returning == Len(stack) = 1 /\ Top.pc = "return"

\* the ray of the top-level call hit a transparent surface through which a
\* refraction ray passes
ThroughGlass ==
  /\ HasHit(Top)
  /\ Top.intersection.material.transparency > 0
  /\ RefractRay(Top.ray, Top.intersection) # null

\* C13: with enableRefraction false no activation at any depth waits for a
\* refraction ray, and the top-level call returns the colour it returns in the
\* same scene with every transparency 0; with enableRefraction true, a ray
\* that goes through a transparent sphere in front of an object of another
\* colour returns a colour other than the one it returns with the setting
\* false.
C13_RefractionToggle ==
  /\ ~raytracingSettings.enableRefraction
       => /\ \A i \in Frames : stack[i].pc # "refractWait"
          /\ Returning
               => Top.ret = TraceColour(Top.ray, Top.backgroundColor, 0,
                                        Opaque(scene),
                                        raytracingSettings.enableShadows, TRUE)
  /\ (raytracingSettings.enableRefraction /\ Returning /\ ThroughGlass)
       => Top.ret # TraceColour(Top.ray, Top.backgroundColor, 0, scene,
                                raytracingSettings.enableShadows, FALSE)

\* the ray through the glass sphere returned with refraction disabled, after
\* it had returned with refraction enabled
C13_Witness ==
  /\ Returning /\ ThroughGlass
  /\ ~raytracingSettings.enableRefraction
  /\ debugCount.called = 2

\* a call of renderRaytrace is in its loop, or has returned true
Rendering == renderer.pc \in {"loop", "trace"}
Rendered == renderer.fn = "renderRaytrace" /\ renderer.pc = "idle" /\ renderer.result = TRUE

\* floor(clamp01(channel) * 255)
ByteOf(channel) == Mul(Min(One, Max(0, channel)), 255 * One) \div One

C16_UnusableGpuReturnsFalse ==
  (renderer.pc = "idle" /\ renderer.fn # "none"
     /\ (renderer.gpu = null \/ "error" \in DOMAIN renderer.gpu))
    => /\ renderer.result = FALSE
       /\ renderer.gpuCalls = <<>>
       /\ renderer.rays = 0
       /\ stack = <<>>

\* renderRaytrace has returned from a call with GPU objects that carry an
\* error message, in a scene that is not empty
C16_Witness ==
  /\ renderer.pc = "idle" /\ renderer.fn = "renderRaytrace"
  /\ "error" \in DOMAIN renderer.gpu /\ "device" \in DOMAIN renderer.gpu
  /\ Len(scene.objects) > 0
  /\ renderer.result = FALSE

\* the ids that addObject has returned so far
ReturnedIds == {IdStrings[n] : n \in 1..(sceneManager.nextId - 1)}

\* an id that addObject never returned, or whose object has been removed
Dead(id) == id \notin ReturnedIds \/ id \in sceneManager.removed

\* the operations of the scene manager that look an id up
Lookups ==
  {"getObject", "removeObject", "updateObjectPosition", "updateSphereRadius",
   "updateObjectMaterial", "updateObjectColor"}

\* C15: a call of getObject with an id that addObject never returned or that
\* has been removed returns null; such a call of removeObject,
\* updateObjectPosition, updateSphereRadius, updateObjectMaterial or
\* updateObjectColor returns false; and the call leaves scene.objects, the id
\* map and every object as they were.
C15_DeadIdChangesNothing ==
  [][IF "id" \in DOMAIN call'
     THEN (call'.fn \in Lookups /\ Dead(call'.id))
            => /\ IF call'.fn = "getObject" THEN ret' = null ELSE ret' = FALSE
               /\ scene' = scene
               /\ sceneManager' = sceneManager
     ELSE TRUE]_vars

\* an update was refused for the id of a removed object while another object
\* is in the scene
C15_Witness ==
  /\ call # none /\ call.fn = "updateObjectColor"
  /\ call.id \in sceneManager.removed
  /\ ret = FALSE
  /\ Len(scene.objects) > 0

\* C17: normalize(v) returns (0,0,0) when length(v) is 0; otherwise it returns
\* a vector of length 1, up to the rounding of the arithmetic, that points the
\* way v points (cross product 0, dot product positive); no component of the
\* result is NaN or infinite; and v is the same after the call.
C17_NormalizeTotal ==
  Called("normalize")
    => LET v == call.v
           squared == Mul(v.x, v.x) + Mul(v.y, v.y) + Mul(v.z, v.z)
           side == cross(ret, v)
       IN  /\ squared = 0 => ret = Vector3(0, 0, 0)
           /\ squared # 0
                => /\ Abs(length(ret) - One) <= PointTolerance
                   /\ dot(ret, v) > 0
                   /\ Abs(side.x) <= PointTolerance
                   /\ Abs(side.y) <= PointTolerance
                   /\ Abs(side.z) <= PointTolerance
           /\ IsFinite(ret.x) /\ IsFinite(ret.y) /\ IsFinite(ret.z)
           /\ call.after = v

\* the zero vector has been normalized
C17_Witness ==
  /\ Called("normalize")
  /\ call.v = Vector3(0, 0, 0)
  /\ ret = Vector3(0, 0, 0)

\* the index in scene.objects of the object whose intersection the scan of
\* computeRayIntersection keeps from object i on; 0 when it keeps none
RECURSIVE NearestObjectFrom(_, _, _, _, _)
NearestObjectFrom(ray, objects, i, nearest, nearestDistance) ==
  IF i > Len(objects) THEN nearest
  ELSE LET intersection == intersect(objects[i], ray)
       IN  IF IsNearer(intersection, nearestDistance)
           THEN NearestObjectFrom(ray, objects, i + 1, i, intersection.distance)
           ELSE NearestObjectFrom(ray, objects, i + 1, nearest, nearestDistance)

NearestObject(ray) == NearestObjectFrom(ray, scene.objects, 1, 0, Infinity)

\* activation i traces a secondary ray and has found its nearest hit on the
\* surface the ray was spawned from, within ten offsets of its origin
ReHits(i) ==
  /\ i > 1
  /\ HasHit(stack[i])
  /\ NearestObject(stack[i].ray) = NearestObject(stack[i - 1].ray)
  /\ stack[i].intersection.distance <= 10 * EPSILON

\* the ray of activation i met the surface from inside: against the normal
\* that points out of the sphere
FromInside(i) ==
  HasHit(stack[i]) /\ dot(stack[i].ray.direction, stack[i].intersection.normal) > 0

\* C18: no secondary ray has the surface it was spawned from as its nearest
\* hit at a distance of the order of the 0.001 offset: neither the reflection
\* ray nor the refraction ray, whether the refraction ray enters the sphere
\* or leaves it.
C18_NoImmediateReHit == \A i \in Frames : ~ReHits(i)

\* the settings that tracing reads, as arguments of TraceColour
Shadows == raytracingSettings.enableShadows
Refraction == raytracingSettings.enableRefraction

\* of the hit of the outermost activation: the local Phong colour L, the
\* colours R and T of the reflection and the refraction ray traced at
\* depth + 1, the weight r of the reflection and the weight w of the refraction
LocalColour == calculateLighting(Top.intersection, Top.ray, scene, Shadows)
ReflectionColour ==
  TraceColour(ReflectRay(Top.ray, Top.intersection), Top.backgroundColor,
              Top.depth + 1, scene, Shadows, Refraction)
RefractionColour ==
  TraceColour(RefractRay(Top.ray, Top.intersection), Top.backgroundColor,
              Top.depth + 1, scene, Shadows, Refraction)
ReflectionWeight == Top.intersection.material.reflection
RefractionWeight ==
  Mul(Top.intersection.material.transparency,
      One - calculateFresnelReflection(Top.ray.direction, Top.intersection.normal,
                                       Top.intersection.material.refractiveIndex))

\* a refraction ray is traced at the hit of the outermost activation
RefractionTraced ==
  /\ Top.intersection.material.transparency > 0
  /\ Refraction
  /\ RefractRay(Top.ray, Top.intersection) # null

\* one channel of the blend: the reflection first, where r > 0, the
\* refraction onto the blended value, where a refraction ray is traced
Blended(L, R, T) ==
  LET reflected == IF ReflectionWeight > 0
                   THEN Mul(L, One - ReflectionWeight) + Mul(R, ReflectionWeight)
                   ELSE L
      refracted == IF RefractionTraced
                   THEN Mul(reflected, One - RefractionWeight) + Mul(T, RefractionWeight)
                   ELSE reflected
  IN  Min(One, Max(0, refracted))

\* C19: at a hit the colour traceRay returns is, in each channel,
\* clamp01((L*(1-r) + R*r)*(1-w) + T*w): L the local Phong colour, R the
\* colour of the reflection ray at depth + 1 and r = material.reflection (no
\* reflection ray and no blend when r = 0), T the colour of the refraction
\* ray at depth + 1 and w = material.transparency*(1-F); the reflection is
\* blended first, the refraction onto the blended colour, and nothing of the
\* Fresnel share F is added to the reflection term. Where no refraction ray
\* is traced the refraction blend is absent.
C19_BlendOrder ==
  (Len(stack) = 1 /\ Top.pc = "return" /\ HasHit(Top))
    => LET R == IF ReflectionWeight > 0 THEN ReflectionColour ELSE LocalColour
           T == IF RefractionTraced THEN RefractionColour ELSE LocalColour
       IN  /\ Top.ret.r = Blended(LocalColour.r, R.r, T.r)
           /\ Top.ret.g = Blended(LocalColour.g, R.g, T.g)
           /\ Top.ret.b = Blended(LocalColour.b, R.b, T.b)

\* a hit of glass that reflects and refracts is about to return a colour
\* that both blends have changed
C19_Witness ==
  /\ Len(stack) = 1 /\ Top.pc = "return" /\ HasHit(Top)
  /\ ReflectionWeight > 0
  /\ RefractionTraced /\ RefractionWeight > 0
  /\ Top.ret # ClampColor(LocalColour)

\* 1 - eta^2*(1 - cosi^2) with eta = 1/refrIndex for a ray against the
\* normal and eta = refrIndex otherwise
SnellDiscriminant(incident, normal, refrIndex) ==
  LET cosi == dot(incident, normal)
      eta == IF cosi < 0 THEN Div(One, refrIndex) ELSE refrIndex
  IN  One - Mul(Mul(eta, eta), One - Mul(cosi, cosi))

\* the hit of the innermost activation is one of total internal reflection
TotalReflection ==
  SnellDiscriminant(Top.ray.direction, Top.intersection.normal,
                    Top.intersection.material.refractiveIndex) <= 0

C21_PanPositiveIsRight ==
  [][\A degrees \in Angles :
       Pan(degrees)
         => /\ (0 < degrees /\ degrees < 180)
                 => dot(camera'.direction, camera.right) > 0
            /\ (-180 < degrees /\ degrees < 0)
                 => dot(camera'.direction, camera.right) < 0
            /\ camera'.position = camera.position]_vars

\* C22: tilt(degrees) with 0 < degrees < 90 on a camera whose direction is
\* horizontal tilts the view up, whatever the heading: the new direction has
\* a positive component along up as it was before the call; and tilt leaves
\* right and position unchanged.
C22_TiltPositiveIsUp ==
  [][\A degrees \in Angles :
       Tilt(degrees)
         => /\ (0 < degrees /\ degrees < 90 /\ camera.direction.y = 0)
                 => dot(camera'.direction, camera.up) > 0
            /\ camera'.right = camera.right
            /\ camera'.position = camera.position]_vars

\* of the last call of calculateLighting: what one light that is not in
\* shadow adds to a channel, c the material's and lc the light's colour in
\* that channel; the specular term only for dot(normal, lightDir) > 0 when
\* gated, and whatever its sign when not
LightTerm(light, c, lc, gated) ==
  LET normal == call.intersection.normal
      material == call.intersection.material
      lightDir == LightDir(light, call.intersection.point)
      viewDir == scale(call.ray.direction, -One)
      intensity == Attenuation(light, call.intersection.point)
      reflected == subtract(scale(normal, 2 * dot(normal, lightDir)), lightDir)
      power == Pow(Max(0, dot(reflected, viewDir)), material.shininess)
      specular == IF gated /\ dot(normal, lightDir) <= 0 THEN 0
                  ELSE Mul(lc, Mul(Mul(material.specular, power), intensity))
      diffuse == Mul(Mul(Mul(Mul(c, material.diffuse), Max(dot(normal, lightDir), 0)),
                         lc), intensity)
  IN  diffuse + specular

\* the lights of the last call that are not in shadow
NotInShadow ==
  SelectSeq(scene.lights,
            LAMBDA light : ~InShadow(light, call.intersection.point, scene,
                                     call.enableShadows))

RECURSIVE LightTerms(_, _, _)
LightTerms(lights, channel, gated) ==
  IF lights = <<>> THEN 0
  ELSE LightTerm(Head(lights), call.intersection.material.color[channel],
                 Head(lights).color[channel], gated)
       + LightTerms(Tail(lights), channel, gated)

\* the channel of the result: ambient term plus the terms of the lights
Lit(channel, gated) ==
  Min(One, Max(0, Mul(call.intersection.material.color[channel],
                      call.intersection.material.ambient)
                  + LightTerms(NotInShadow, channel, gated)))

\* some light that is not in shadow lies behind the surface
LightBehind ==
  \E i \in 1..Len(NotInShadow) :
     dot(call.intersection.normal,
         LightDir(NotInShadow[i], call.intersection.point)) <= 0

\* C23 as stated: for every light that is not in shadow calculateLighting
\* adds pow(max(0, dot(reflect(lightDir, normal), viewDir)), shininess) x
\* material.specular x light.color x attenuatedIntensity, whatever the sign
\* of dot(normal, lightDir) and for every shininess >= 0.
C23_SpecularWhateverTheSign ==
  Called("calculateLighting")
    => /\ ret.r = Lit("r", FALSE)
       /\ ret.g = Lit("g", FALSE)
       /\ ret.b = Lit("b", FALSE)

\* C23 amended: the specular term is added for every light that is not in
\* shadow and has dot(normal, lightDir) > 0, for every shininess >= 0; a
\* light with dot(normal, lightDir) <= 0 adds no specular term.
C23_SpecularForFacingLights ==
  Called("calculateLighting")
    => /\ ret.r = Lit("r", TRUE)
       /\ ret.g = Lit("g", TRUE)
       /\ ret.b = Lit("b", TRUE)

\* a point of the sphere with shininess 0, on the far side from the light and
\* with shadows disabled: only the ambient term, where the ungated formula
\* adds a specular term
C23_Witness ==
  /\ Called("calculateLighting") /\ ~call.enableShadows
  /\ call.intersection.material.shininess = 0
  /\ LightBehind
  /\ ret = Ambient(call.intersection.material)
  /\ Lit("r", FALSE) > ret.r

\* of the last call of Plane.intersect: dot(direction, normal) and the
\* distance along the ray to the plane
Denom == dot(call.ray.direction, call.object.normal)
PlaneDistance ==
  Div(dot(subtract(call.object.point, call.ray.origin), call.object.normal), Denom)

\* C24 as stated: Plane.intersect rejects a ray as parallel exactly when
\* |dot(direction, normal)| < 0.001, the epsilon of the self-intersection
\* guard; a ray with dot(direction, normal) = -0.0005 is rejected.
C24_ParallelBelowGuard ==
  Called("Plane.intersect")
    => /\ Abs(Denom) < One \div 1000 => ret = null
       /\ (Denom <= -(One \div 1000) /\ PlaneDistance >= One \div 1000) => ret # null

\* C24 amended: Plane.intersect rejects a ray as parallel exactly when
\* |dot(direction, normal)| < 0.0001, a tenth of the self-intersection guard
\* 0.001: a ray towards the front face with dot(direction, normal) <= -0.0001
\* that meets the plane at t >= 0.001 is reported, the ray with
\* dot(direction, normal) = -0.0005 among them.
C24_ParallelBelowTenthOfGuard ==
  Called("Plane.intersect")
    => /\ Abs(Denom) < One \div 10000 => ret = null
       /\ (Denom <= -(One \div 10000) /\ PlaneDistance >= One \div 1000) => ret # null

\* the ray with dot(direction, normal) = -0.0005 meets the plane y = -1 and
\* is reported, at distance 2
C24_Witness ==
  /\ Called("Plane.intersect")
  /\ Denom = -(One \div 2000)
  /\ ret # null
  /\ ret.distance = 2 * One

\* C25: no scene holds a sphere with a radius that is not positive or a
\* light whose kind is neither 'point' nor 'directional': the Light
\* constructor, Scene.addObject and addLight, SceneManager.addObject and
\* updateSphereRadius reject them, so calculateLighting has a light
\* direction for every light it meets.
C25_SceneWellFormed ==
  /\ \A i \in 1..Len(scene.objects) :
        scene.objects[i].type = "Sphere" => scene.objects[i].radius > 0
  /\ \A i \in 1..Len(scene.lights) :
        scene.lights[i].type \in {"point", "directional"}
  /\ (Called("updateSphereRadius") /\ call.radius <= 0) => ret = FALSE

\* how many objects of the scene are of this type
CountOf(type) ==
  Cardinality({i \in 1..Len(scene.objects) : scene.objects[i].type = type})

\* C26: after any number of calls of createCornellBox, with or without a
\* clearScene before, the scene holds the 8 Cornell objects (5 planes and 3
\* spheres) and 3 lights: the scene a first createCornellBox gives on a new
\* scene.
C26_CornellBoxIdempotent ==
  Called("createCornellBox")
    => /\ Len(scene.objects) = 8
       /\ CountOf("Plane") = 5
       /\ CountOf("Sphere") = 3
       /\ Len(scene.lights) = 3
       /\ scene = CornellScene
       /\ ret = scene

\* C27: in every state of the camera (constructed, moved, panned, tilted,
\* reset by the page) up = normalize(cross(right, direction)), and so pan(0)
\* and tilt(0) change neither right nor up.
\* (Equality of vectors up to a thousandth in each component: the last
\* digits of a recomputed vector are rounding.)
SameVector(v1, v2) ==
  /\ Abs(v1.x - v2.x) <= K
  /\ Abs(v1.y - v2.y) <= K
  /\ Abs(v1.z - v2.z) <= K

C27_OneHandedness ==
  /\ [](camera.up = normalize(cross(camera.right, camera.direction)))
  /\ [][(Pan(0) \/ Tilt(0))
          => /\ SameVector(camera'.right, camera.right)
             /\ SameVector(camera'.up, camera.up)]_vars

\* what the page has logged
Logged == 1..Len(page.log)
InitFailed(i) == page.log[i].ev = "initialized" /\ GpuUnusable(page.log[i].gpu)
IsRender(i) == page.log[i].ev \in {"renderPreview", "renderRaytrace"}

\* C28: once initializeGPU has returned an object with an error, every later
\* getGPUContext returns null; so no handler calls renderPreview or
\* renderRaytrace with a failed context, and every render of the preview
\* button, after which the page shows 'Preview render completed', has
\* succeeded.
C28_FailureIsRemembered ==
  /\ \A i, j \in Logged :
       (i < j /\ InitFailed(i) /\ page.log[j].ev = "getGPUContext")
         => page.log[j].gpu = null
  /\ \A j \in Logged : IsRender(j) => ~GpuUnusable(page.log[j].gpu)
  /\ \A j \in Logged :
       (page.log[j].ev = "renderPreview" /\ page.log[j].caller = "preview")
         => page.log[j].result

\* C29: initializeGPU is called at most once per page load, also when
\* getGPUContext is called while the first initialization is awaited, and all
\* callers get the same context.
C29_InitializedOnce ==
  /\ Cardinality({i \in Logged : page.log[i].ev = "initializeGPU"}) <= 1
  /\ \A i, j \in Logged :
       (page.log[i].ev = "getGPUContext" /\ page.log[j].ev = "getGPUContext")
         => page.log[i].gpu = page.log[j].gpu

\* how many ids the map registers for this handle, and how many entries of
\* scene.objects are the object with this handle
Registered(handle) ==
  Cardinality({id \in DOMAIN sceneManager.objects : sceneManager.objects[id] = handle})
InScene(handle) ==
  Cardinality({i \in DOMAIN sceneManager.refs : sceneManager.refs[i] = handle})

\* the methods that empty the scene
Clearing == {"clearScene", "createDefaultScene", "createCornellBox"}

\* C30: after any sequence of the manager's methods the objects registered
\* in the id map are the objects of scene.objects, each as many times (also
\* when an object was added twice and one of its ids removed), and
\* getObject(id) returns the object added under id, from addObject on until
\* removeObject(id) or a method that clears the scene.
C30_MapIsScene ==
  /\ [](/\ Len(scene.objects) = Cardinality(DOMAIN sceneManager.objects)
        /\ Len(sceneManager.refs) = Len(scene.objects)
        /\ \A i \in DOMAIN scene.objects :
             scene.objects[i] = ObjectOf(sceneManager.refs[i])
        /\ \A handle \in DOMAIN sceneManager.heap :
             Registered(handle) = InScene(handle)
        /\ Called("getObject")
             => ret = (IF call.id \in DOMAIN sceneManager.objects
                       THEN ObjectOf(sceneManager.objects[call.id])
                       ELSE null))
  /\ [][/\ \A id \in DOMAIN sceneManager.objects :
             \/ call'.fn \in Clearing
             \/ call'.fn = "removeObject" /\ call'.id = id
             \/ /\ id \in DOMAIN sceneManager'.objects
                /\ sceneManager'.objects[id] = sceneManager.objects[id]
        /\ call'.fn = "addObject"
             => /\ ret' \notin DOMAIN sceneManager.objects
                /\ ret' \in DOMAIN sceneManager'.objects
                /\ sceneManager'.heap[sceneManager'.objects[ret']] = Built(call'.object)]_vars

\* the same object under two ids, one of which has been removed
C30_Witness ==
  /\ Called("removeObject") /\ ret = TRUE
  /\ Len(sceneManager.heap) = 1
  /\ sceneManager.nextId = 3
  /\ Cardinality(DOMAIN sceneManager.objects) = 1
  /\ Len(scene.objects) = 1

====
